---- MODULE Spec2Model ----
(***************************************************************************)
(* Verification model of fhir_x_synthea: the bidirectional conversion      *)
(* between flat Synthea records and nested FHIR documents.                 *)
(*                                                                         *)
(* Text is modelled as a sequence of symbols.  The symbols that the code   *)
(* treats specially (" ", "/", ":") are single characters; every other     *)
(* symbol is an opaque run of ordinary characters.  Python's None is the   *)
(* distinguished value None where a string is expected and NoneObj where a *)
(* mapping is expected; the empty string and the empty list are <<>>.  A   *)
(* nested document is a record whose absent keys hold None, NoneObj or the *)
(* empty list (model_dump(exclude_none=True) followed by dict.get).        *)
(***************************************************************************)
EXTENDS Integers, Sequences, FiniteSets, TLC

VARIABLES pc, input, doc, output, warnings

vars == <<pc, input, doc, output, warnings>>

(***************************************************************************)
(* Bounds                                                                  *)
(***************************************************************************)
MaxIdLen == 3

MaxParticipants == 2

MaxDiagnoses == 9
\* longest reaction list of a nested allergy
MaxReactions == 3
\* longest list of encounters, of conditions and of allergies handed to
\* patient_bundle
MaxChildren == 2
\* longest entry list of a collection that is not built by patient_bundle
MaxEntries == 3

(***************************************************************************)
(* Text primitives                                                         *)
(***************************************************************************)
None == <<"None">>

NoneObj == [none |-> TRUE]

SP == " "

SLASH == "/"

\* Python truthiness of an optional string: None and "" are falsy.
Truthy(s) == s # None /\ s # <<>>

\* x or None
OrNone(s) == IF Truthy(s) THEN s ELSE None

\* x or d
OrDefault(s, d) == IF Truthy(s) THEN s ELSE d

RECURSIVE LStrip(_)
LStrip(s) == IF s # <<>> /\ Head(s) = SP THEN LStrip(Tail(s)) ELSE s

RECURSIVE RStrip(_)
RStrip(s) ==
    IF s # <<>> /\ s[Len(s)] = SP THEN RStrip(SubSeq(s, 1, Len(s) - 1)) ELSE s

\* str.strip()
Strip(s) == RStrip(LStrip(s))

\* c in s
Contains(s, c) == \E i \in 1..Len(s) : s[i] = c

\* s.split(c)[-1]: the part of s after the last occurrence of c
RECURSIVE SplitLast(_, _)
SplitLast(s, c) ==
    IF Contains(s, c)
    THEN LET i == CHOOSE j \in 1..Len(s) : s[j] = c /\ \A k \in 1..(j - 1) : s[k] # c
         IN SplitLast(SubSeq(s, i + 1, Len(s)), c)
    ELSE s

\* s.split(c)[0]: the part of s before the first occurrence of c
SplitFirst(s, c) ==
    IF Contains(s, c)
    THEN LET i == CHOOSE j \in 1..Len(s) : s[j] = c /\ \A k \in 1..(j - 1) : s[k] # c
         IN SubSeq(s, 1, i - 1)
    ELSE s

\* to_str(value): "" for None, otherwise the stripped string
to_str(value) == IF value = None THEN <<>> ELSE Strip(value)

\* all sequences over alphabet a of length lo..hi
SeqsOf(a, lo, hi) == UNION {[1..n -> a] : n \in lo..hi}

(***************************************************************************)
(* Resource kinds                                                          *)
(***************************************************************************)
PatientKind == <<"Patient">>

EncounterKind == <<"Encounter">>

ConditionKind == <<"Condition">>

AllergyKind == <<"AllergyIntolerance">>

OrganizationKind == <<"Organization">>

Kinds == {PatientKind, EncounterKind, OrganizationKind}

(***************************************************************************)
(* Reference construction and decomposition                                *)
(***************************************************************************)
\* f"{resource_type}/{rid}"
RefString(resource_type, rid) == resource_type \o <<SLASH>> \o rid

\* fhir_lib.create_reference
create_reference(resource_type, resource_id) ==
    IF ~Truthy(resource_id) \/ Strip(resource_id) = <<>>
    THEN NoneObj
    ELSE [reference |-> RefString(resource_type, Strip(resource_id))]

\* fhir_lib.ref (chidian builder)
ref(resource_type, resource_id) ==
    IF ~Truthy(resource_id) \/ Strip(resource_id) = <<>>
    THEN NoneObj
    ELSE [reference |-> RefString(resource_type, Strip(resource_id))]

\* types.make_ref
make_ref(ref_string) ==
    IF ref_string = None THEN NoneObj ELSE [reference |-> ref_string]

\* types.extract_ref
extract_ref(r) == IF r = NoneObj THEN None ELSE r.reference

extract_id_from_ref_first(r) ==
    LET ref_str == extract_ref(r)
    IN IF ref_str = None THEN None ELSE SplitFirst(ref_str, SLASH)

\* types.extract_id_from_ref
extract_id_from_ref(r) ==
    LET ref_str == extract_ref(r)
    IN IF ref_str = None THEN None ELSE SplitLast(ref_str, SLASH)

\* chidian_ext.extract_ref_id, applied to the object found at the path
extract_ref_id(ref_obj, default) ==
    IF ref_obj = NoneObj
    THEN default
    ELSE LET reference == ref_obj.reference
         IN IF ~Truthy(reference) THEN default ELSE SplitLast(reference, SLASH)

(***************************************************************************)
(* Specification SpecRef: build a reference, then decompose it             *)
(***************************************************************************)
IdAlphabet == {"a", SLASH, SP}

RefIds == SeqsOf(IdAlphabet, 0, MaxIdLen)

InitRef ==
    /\ pc = "start"
    /\ input \in [kind : Kinds, id : RefIds]
    /\ doc = NoneObj
    /\ output = None
    /\ warnings = 0

CreateReference ==
    /\ pc = "start"
    /\ doc' = create_reference(input.kind, input.id)
    /\ pc' = "built"
    /\ UNCHANGED <<input, output, warnings>>

RefBuilder ==
    /\ pc = "start"
    /\ doc' = ref(input.kind, input.id)
    /\ pc' = "built"
    /\ UNCHANGED <<input, output, warnings>>

ExtractIdFromRef ==
    /\ pc = "built"
    /\ output' = extract_id_from_ref(make_ref(extract_ref(doc)))
    /\ pc' = "decomposed"
    /\ UNCHANGED <<input, doc, warnings>>

ExtractRefId ==
    /\ pc = "built"
    /\ output' = extract_ref_id(doc, None)
    /\ pc' = "decomposed"
    /\ UNCHANGED <<input, doc, warnings>>

NextRef == CreateReference \/ RefBuilder \/ ExtractIdFromRef \/ ExtractRefId

SpecRef == InitRef /\ [][NextRef]_vars

\* an identifier the builders pass through unchanged and the decomposers
\* read back whole: no '/', no leading or trailing blank
CleanId(id) == id # <<>> /\ Strip(id) = id /\ ~Contains(id, SLASH)

\* C2 (original statement): for every kind K and every non-empty identifier
\* id, the built reference is K, '/', id and decomposing it returns id.
C2_Original ==
    (pc = "decomposed" /\ input.id # <<>>) =>
        /\ doc # NoneObj
        /\ doc.reference = RefString(input.kind, input.id)
        /\ output = input.id

\* C2 (amended): for every kind K and every non-empty identifier id that has
\* no '/' and no leading or trailing blank, the built reference is K, '/',
\* id and decomposing it (extract_id_from_ref or extract_ref_id) returns id.
C2_RefRoundTrip ==
    (pc = "decomposed" /\ CleanId(input.id)) =>
        /\ doc # NoneObj
        /\ doc.reference = RefString(input.kind, input.id)
        /\ output = input.id

C2_Witness ==
    /\ pc = "decomposed"
    /\ CleanId(input.id)
    /\ Len(input.id) = 2
    /\ output = input.id

(***************************************************************************)
(* Coded concepts                                                          *)
(*                                                                         *)
(* A coding is [system, code, display]; a concept is [coding, text] with   *)
(* coding a list.  Code system URLs are opaque symbols: the code only      *)
(* compares them or tests them for a fixed substring.                      *)
(***************************************************************************)
SNOMED == <<"http://snomed.info/sct">>

RXNORM == <<"http://www.nlm.nih.gov/research/umls/rxnorm">>

ACT_CODE == <<"http://terminology.hl7.org/CodeSystem/v3-ActCode">>

\* a second URL that also contains the substring "v3-ActCode"
ACT_CODE_ALT == <<"urn:oid:v3-ActCode">>

OTHER_SYSTEM == <<"http://example.org/local-codes">>

\* "v3-ActCode" in system
HasActCodeSubstring(system) == system \in {ACT_CODE, ACT_CODE_ALT}

\* "snomed.info" in system
HasSnomedSubstring(system) == system = SNOMED

\* dict.get(key, ""): an absent key reads as the empty string
GetStr(v) == IF v = None THEN <<>> ELSE v

\* str.lower() on the symbols that occur with capitals in the model
LowerSym(c) ==
    CASE c = "Emergency" -> "emergency"
      [] c = "Wellness" -> "wellness"
      [] c = "Inpatient" -> "inpatient"
      [] c = "MILD" -> "mild"
      [] c = "SEVERE" -> "severe"
      [] c = "Drug" -> "drug"
      [] c = "Allergy" -> "allergy"
      [] c = "Male" -> "male"
      [] c = "M" -> "m"
      [] c = "F" -> "f"
      [] OTHER -> c

Lower(s) == [i \in DOMAIN s |-> LowerSym(s[i])]

\* str.upper() on the symbols that occur in lower case in the model
UpperSym(c) ==
    CASE c = "mild" -> "MILD"
      [] c = "m" -> "M"
      [] c = "f" -> "F"
      [] c = "severe" -> "SEVERE"
      [] c = "transfer" -> "TRANSFER"
      [] OTHER -> c

Upper(s) == [i \in DOMAIN s |-> UpperSym(s[i])]

\* str.capitalize() on the one-symbol codes the converters capitalise
Capitalize(s) ==
    CASE s = <<"allergy">> -> <<"Allergy">>
      [] s = <<"intolerance">> -> <<"Intolerance">>
      [] s = <<"active">> -> <<"Active">>
      [] s = <<"resolved">> -> <<"Resolved">>
      [] OTHER -> s

Coding(system, code, display) ==
    [system |-> system, code |-> code, display |-> display]

Concept(codings, text) == [coding |-> codings, text |-> text]

\* synthea_csv_lib.extract_reference_id: "Kind/id" -> id.  The module is
\* not part of the sources; this follows the specification ("strip any
\* kind/ prefix", a one-line split) as chidian_ext.extract_ref_id does.
extract_reference_id(ref_obj) ==
    IF ref_obj = NoneObj \/ ~Truthy(ref_obj.reference)
    THEN <<>>
    ELSE SplitLast(ref_obj.reference, SLASH)

\* index of the first coding of the first preferred system (in priority
\* order) that carries a non-empty code; 0 when there is none
RECURSIVE PreferredIndex(_, _)
PreferredIndex(codings, preferred) ==
    IF preferred = <<>>
    THEN 0
    ELSE LET hits == {i \in 1..Len(codings) :
                        /\ codings[i].system = Head(preferred)
                        /\ Truthy(codings[i].code)}
         IN IF hits # {}
            THEN CHOOSE i \in hits : \A j \in hits : i <= j
            ELSE PreferredIndex(codings, Tail(preferred))

\* synthea_csv_lib.extract_coding_code: the code of the preferred system,
\* else the first coding's code, else "".  Modelled from the specification;
\* chidian_ext.extract_code is the same rule on a path.
extract_coding_code(concept, preferred) ==
    IF concept = NoneObj \/ "coding" \notin DOMAIN concept \/ concept.coding = <<>>
    THEN <<>>
    ELSE LET i == PreferredIndex(concept.coding, preferred)
         IN IF i > 0
            THEN concept.coding[i].code
            ELSE GetStr(concept.coding[1].code)

\* synthea_csv_lib.extract_coding_system: the first coding's system
extract_coding_system(concept) ==
    IF concept = NoneObj \/ concept.coding = <<>>
    THEN <<>>
    ELSE GetStr(concept.coding[1].system)

\* synthea_csv_lib.extract_display_or_text: the first coding's display,
\* falling back to the free-text field
extract_display_or_text(concept) ==
    IF concept = NoneObj
    THEN <<>>
    ELSE IF concept.coding # <<>> /\ Truthy(concept.coding[1].display)
         THEN concept.coding[1].display
         ELSE GetStr(concept.text)

\* str.replace(a, b)
Replace(s, a, b) == [i \in DOMAIN s |-> IF s[i] = a THEN b ELSE s[i]]

\* c.replace(" ", "-").replace(":", "-") on one symbol of a text: a space or
\* a colon becomes a hyphen, and so does each colon inside a time or a zone
HyphenSym(c) ==
    CASE c = SP -> "-"
      [] c = ":" -> "-"
      [] c = "00:00:00" -> "00-00-00"
      [] c = "10:30:00" -> "10-30-00"
      [] c = "+00:00" -> "+00-00"
      [] c = "-05:00" -> "-05-00"
      [] OTHER -> c

\* s.replace(" ", "-"): only the spaces become hyphens
SpaceSym(c) == IF c = SP THEN "-" ELSE c

\* f"{patient_id}-{start}-{code}".replace(" ", "-"), the colons kept
SyntheticId_spaces(patient_id, start, code) ==
    LET s == patient_id \o <<"-">> \o start \o <<"-">> \o code
    IN [i \in DOMAIN s |-> SpaceSym(s[i])]

\* f"{patient_id}-{start}-{code}".replace(" ", "-").replace(":", "-")
SyntheticId(patient_id, start, code) ==
    LET s == patient_id \o <<"-">> \o start \o <<"-">> \o code
    IN [i \in DOMAIN s |-> HyphenSym(s[i])]

\* code / display -> CodeableConcept as the converters build it for a
\* SNOMED coded field with a description
SnomedConcept(code, description) ==
    IF ~Truthy(code) /\ ~Truthy(description)
    THEN NoneObj
    ELSE Concept(IF Truthy(code)
                 THEN <<Coding(SNOMED, code, OrNone(description))>>
                 ELSE <<>>,
                 OrNone(description))

(***************************************************************************)
(* Encounter                                                               *)
(*                                                                         *)
(* The period and the cost extensions of an encounter carry dates and      *)
(* amounts only; they take no part in the identifiers, references, class,  *)
(* type or reason modelled here.                                           *)
(***************************************************************************)
AMBULATORY == <<"ambulatory">>

EMERGENCY == <<"emergency">>

INPATIENT == <<"inpatient">>

WELLNESS == <<"wellness">>

URGENTCARE == <<"urgentcare">>

OUTPATIENT == <<"outpatient">>

AMB == <<"AMB">>

EMER == <<"EMER">>

IMP == <<"IMP">>

ACUTE == <<"ACUTE">>

\* to_fhir.encounter._map_encounter_class
to_fhir_map_encounter_class(class_str) ==
    IF ~Truthy(class_str)
    THEN NoneObj
    ELSE LET class_lower == Strip(Lower(class_str))
         IN CASE class_lower = AMBULATORY ->
                   Concept(<<Coding(ACT_CODE, AMB, AMBULATORY)>>, None)
              [] class_lower = EMERGENCY ->
                   Concept(<<Coding(ACT_CODE, EMER, EMERGENCY)>>, None)
              [] class_lower = INPATIENT ->
                   Concept(<<Coding(ACT_CODE, IMP, <<"inpatient encounter">>)>>, None)
              [] class_lower = WELLNESS ->
                   Concept(<<Coding(ACT_CODE, AMB, AMBULATORY)>>, None)
              [] class_lower = URGENTCARE ->
                   Concept(<<Coding(ACT_CODE, AMB, AMBULATORY)>>, None)
              [] OTHER -> NoneObj

\* the reference a converter writes: the override, else Kind/id, else none
EffectiveRef(override, kind, id) ==
    IF Truthy(override)
    THEN [reference |-> override]
    ELSE IF Truthy(id) THEN [reference |-> RefString(kind, id)] ELSE NoneObj

\* to_fhir.encounter.convert
encounter_to_fhir(src, patient_ref, provider_ref, organization_ref) ==
    LET encounter_id == to_str(src.id)
        start == to_str(src.start)
        stop == to_str(src.stop)
        patient_id == to_str(src.patient)
        organization_id == to_str(src.organization)
        provider_id == to_str(src.provider)
        encounter_class == to_str(src.encounterclass)
        code == to_str(src.code)
        description == to_str(src.description)
        reason_code == to_str(src.reasoncode)
        reason_description == to_str(src.reasondescription)
        payer_id == to_str(src.payer)
        resource_id == SyntheticId(patient_id, start, code)
        effective_provider_ref ==
            EffectiveRef(provider_ref, <<"Practitioner">>, provider_id)
        class_coding == to_fhir_map_encounter_class(encounter_class)
        type_obj == SnomedConcept(code, description)
        concept == SnomedConcept(reason_code, reason_description)
    IN [resourceType |-> EncounterKind,
        status |-> IF stop # <<>> THEN <<"completed">> ELSE <<"in-progress">>,
        id |-> IF encounter_id # <<>>
               THEN encounter_id
               ELSE IF resource_id # <<>> /\ resource_id # <<"-", "-">>
                    THEN resource_id
                    ELSE None,
        subject |-> EffectiveRef(patient_ref, PatientKind, patient_id),
        serviceProvider |->
            EffectiveRef(organization_ref, OrganizationKind, organization_id),
        participant |-> IF effective_provider_ref # NoneObj
                        THEN <<[actor |-> effective_provider_ref]>>
                        ELSE <<>>,
        class |-> IF class_coding # NoneObj THEN <<class_coding>> ELSE <<>>,
        type |-> IF type_obj # NoneObj THEN <<type_obj>> ELSE <<>>,
        reason |-> IF concept # NoneObj
                   THEN <<[value |-> <<[concept |-> concept]>>]>>
                   ELSE <<>>,
        reasonCode |-> <<>>,
        payer |-> IF payer_id # <<>>
                  THEN create_reference(OrganizationKind, payer_id)
                  ELSE NoneObj]

\* to_synthea.encounter._map_encounter_class without the EMER entry
to_synthea_map_encounter_class_noemer(encounter_class) ==
    IF encounter_class = <<>> \/ encounter_class[1].coding = <<>>
    THEN <<>>
    ELSE LET coding == encounter_class[1].coding[1]
             code == GetStr(coding.code)
             system == GetStr(coding.system)
             display == GetStr(coding.display)
         IN IF HasActCodeSubstring(system)
            THEN CASE code = AMB -> AMBULATORY
                   [] code = IMP -> INPATIENT
                   [] code = ACUTE -> INPATIENT
                   [] OTHER -> <<>>
            ELSE IF display # <<>> THEN Lower(display) ELSE <<>>

\* to_synthea.encounter._map_encounter_class (list-of-concepts form)
to_synthea_map_encounter_class(encounter_class) ==
    IF encounter_class = <<>> \/ encounter_class[1].coding = <<>>
    THEN <<>>
    ELSE LET coding == encounter_class[1].coding[1]
             code == GetStr(coding.code)
             system == GetStr(coding.system)
             display == GetStr(coding.display)
         IN IF HasActCodeSubstring(system)
            THEN CASE code = AMB -> AMBULATORY
                   [] code = EMER -> EMERGENCY
                   [] code = IMP -> INPATIENT
                   [] code = ACUTE -> INPATIENT
                   [] OTHER -> <<>>
            ELSE IF display # <<>> THEN Lower(display) ELSE <<>>

valid_classes ==
    {AMBULATORY, EMERGENCY, INPATIENT, WELLNESS, URGENTCARE, OUTPATIENT}

\* the mapped class passed on as it is, valid or not
class_as_mapped(mapped) == mapped

\* to_synthea.encounter.convert: if encounter_class not in valid_classes:
\* encounter_class = "ambulatory"
class_or_default(mapped) ==
    IF mapped \in valid_classes THEN mapped ELSE AMBULATORY

\* to_synthea.encounter.convert: the flat row
encounter_to_synthea(fhir) ==
    LET participants == fhir.participant
        mapped == IF fhir.class # <<>>
                  THEN to_synthea_map_encounter_class(fhir.class)
                  ELSE <<>>
        first_type == IF fhir.type # <<>> THEN fhir.type[1] ELSE NoneObj
        first_reason == IF fhir.reasonCode # <<>> THEN fhir.reasonCode[1] ELSE NoneObj
    IN [id |-> OrNone(GetStr(fhir.id)),
        patient |-> OrNone(extract_reference_id(fhir.subject)),
        organization |-> OrNone(extract_reference_id(fhir.serviceProvider)),
        provider |-> IF participants # <<>>
                     THEN OrNone(extract_reference_id(participants[1].actor))
                     ELSE None,
        payer |-> OrNone(extract_reference_id(fhir.payer)),
        encounterclass |-> class_or_default(mapped),
        code |-> OrDefault(extract_coding_code(first_type, <<SNOMED>>), <<"unknown">>),
        description |-> OrDefault(extract_display_or_text(first_type), <<"Unknown">>),
        reasoncode |-> OrNone(extract_coding_code(first_reason, <<SNOMED>>)),
        reasondescription |-> OrNone(extract_display_or_text(first_reason))]

\* to_synthea.encounter.convert: the number of warnings it logs
encounter_to_synthea_warnings(fhir) == IF Len(fhir.participant) > 1 THEN 1 ELSE 0

(***************************************************************************)
(* Specification SpecEnc: a flat encounter converted to nested and back,   *)
(* and nested encounters converted to flat                                 *)
(***************************************************************************)
NoOverrides(src) ==
    [src |-> src, patient_ref |-> None, encounter_ref |-> None,
     provider_ref |-> None, organization_ref |-> None]

FlatEncounters ==
    [id : {<<"e1">>},
     start : {<<"2020-01-01">>},
     stop : {None, <<"2020-01-02">>},
     patient : {<<"p1">>},
     organization : {None, <<"o1">>},
     provider : {None, <<"d1">>},
     payer : {None, <<"y1">>},
     encounterclass : valid_classes,
     code : {<<"185345009">>},
     description : {<<"Encounter for symptom">>},
     reasoncode : {None, <<"r1">>},
     reasondescription : {None, <<"Reason">>}]

ClassCodings ==
    [system : {None, ACT_CODE, ACT_CODE_ALT, OTHER_SYSTEM},
     code : {None, AMB, EMER, IMP, ACUTE, <<"VR">>},
     display : {None, <<"Emergency">>, <<"Wellness">>, <<"virtual">>}]

ClassLists ==
    {<<>>, <<Concept(<<>>, <<"emergency">>)>>}
    \cup {<<Concept(<<c>>, None)>> : c \in ClassCodings}
    \cup {<<Concept(<<c, Coding(ACT_CODE, EMER, EMERGENCY)>>, None)>> :
            c \in {Coding(OTHER_SYSTEM, <<"VR">>, None), Coding(ACT_CODE, AMB, None)}}

Participants(n) ==
    [i \in 1..n |-> [actor |-> [reference |-> RefString(<<"Practitioner">>, <<"d", "-", "x">>)]]]

NestedEncounters ==
    {[resourceType |-> EncounterKind,
      status |-> <<"completed">>,
      id |-> <<"e1">>,
      subject |-> [reference |-> RefString(PatientKind, <<"p1">>)],
      serviceProvider |-> NoneObj,
      participant |-> Participants(n),
      class |-> cl,
      type |-> <<SnomedConcept(<<"185345009">>, <<"Encounter for symptom">>)>>,
      reason |-> <<>>,
      reasonCode |-> <<>>,
      payer |-> NoneObj] : cl \in ClassLists, n \in 0..MaxParticipants}

InitEnc ==
    /\ output = NoneObj
    /\ warnings = 0
    /\ \/ /\ pc = "start"
          /\ input \in {NoOverrides(e) : e \in FlatEncounters}
          /\ doc = NoneObj
       \/ /\ pc = "nested"
          /\ input = NoneObj
          /\ doc \in NestedEncounters

EncounterToFhir ==
    /\ pc = "start"
    /\ doc' = encounter_to_fhir(input.src, input.patient_ref, input.provider_ref,
                                input.organization_ref)
    /\ pc' = "nested"
    /\ UNCHANGED <<input, output, warnings>>

EncounterToSynthea ==
    /\ pc = "nested"
    /\ output' = encounter_to_synthea(doc)
    /\ warnings' = warnings + encounter_to_synthea_warnings(doc)
    /\ pc' = "flat"
    /\ UNCHANGED <<input, doc>>

NextEnc == EncounterToFhir \/ EncounterToSynthea

SpecEnc == InitEnc /\ [][NextEnc]_vars

RoundTripClasses == {AMBULATORY, EMERGENCY, INPATIENT, WELLNESS, URGENTCARE}

\* C9: for every flat encounter e whose encounterclass is one of ambulatory,
\* emergency, inpatient, wellness, urgentcare, to_flat(to_nested(e)) has the
\* same encounterclass as e.
C9_ClassRoundTrip ==
    (pc = "flat" /\ input # NoneObj /\ input.src.encounterclass \in RoundTripClasses)
        => output.encounterclass = input.src.encounterclass

\* the first coding of the first class concept of a nested encounter
HasFirstClassCoding(fhir) == fhir.class # <<>> /\ fhir.class[1].coding # <<>>

FirstClassCoding(fhir) == fhir.class[1].coding[1]

\* C10 (original statement): flat 'emergency' becomes class code 'EMER', and
\* every nested encounter whose class code is 'EMER' becomes flat 'emergency'.
C10_Original ==
    /\ (pc \in {"nested", "flat"} /\ input # NoneObj
            /\ input.src.encounterclass = EMERGENCY)
        => (HasFirstClassCoding(doc) /\ FirstClassCoding(doc).code = EMER)
    /\ (pc = "flat" /\ HasFirstClassCoding(doc) /\ FirstClassCoding(doc).code = EMER)
        => output.encounterclass = EMERGENCY

\* C10 (amended): flat 'emergency' becomes class code 'EMER' in the v3-ActCode
\* system, and every nested encounter whose first class coding has code
\* 'EMER' in a v3-ActCode system becomes flat 'emergency'.
C10_EmergencyClass ==
    /\ (pc \in {"nested", "flat"} /\ input # NoneObj
            /\ input.src.encounterclass = EMERGENCY)
        => /\ HasFirstClassCoding(doc)
           /\ FirstClassCoding(doc).code = EMER
           /\ FirstClassCoding(doc).system = ACT_CODE
    /\ (pc = "flat" /\ HasFirstClassCoding(doc)
            /\ FirstClassCoding(doc).code = EMER
            /\ HasActCodeSubstring(GetStr(FirstClassCoding(doc).system)))
        => output.encounterclass = EMERGENCY

C10_Witness ==
    /\ pc = "flat"
    /\ input # NoneObj
    /\ input.src.encounterclass = EMERGENCY
    /\ FirstClassCoding(doc).code = EMER
    /\ output.encounterclass = EMERGENCY

(***************************************************************************)
(* Claim                                                                   *)
(*                                                                         *)
(* The flat columns diagnosis1..diagnosis8 are the sequence diagnosis of   *)
(* length DiagnosisSlots.                                                  *)
(***************************************************************************)
DiagnosisSlots == 8

CLAIM_TYPE == <<"http://terminology.hl7.org/CodeSystem/claim-type">>

PROFESSIONAL == <<"professional">>

INSTITUTIONAL == <<"institutional">>

DEPARTMENT_URL == <<"http://synthea.tools/StructureDefinition/department-id">>

PATIENT_DEPARTMENT_URL ==
    <<"http://synthea.tools/StructureDefinition/patient-department-id">>

\* the non-empty strings of seq, in order
RECURSIVE DropEmpty(_)
DropEmpty(seq) ==
    IF seq = <<>>
    THEN <<>>
    ELSE (IF Head(seq) # <<>> THEN <<Head(seq)>> ELSE <<>>) \o DropEmpty(Tail(seq))

\* seq[:n]
Take(seq, n) == SubSeq(seq, 1, IF Len(seq) < n THEN Len(seq) ELSE n)

\* to_fhir.claims.convert, the loop "for i in range(1, 9)" from slot i on:
\* one entry per non-empty slot, carrying the slot number as its sequence
RECURSIVE claim_diagnoses_from(_, _)
claim_diagnoses_from(src, i) ==
    IF i > DiagnosisSlots
    THEN <<>>
    ELSE LET diag_code == to_str(src.diagnosis[i])
         IN (IF diag_code # <<>>
             THEN <<[sequence |-> i,
                     diagnosisCodeableConcept |->
                         Concept(<<Coding(SNOMED, diag_code, None)>>, None)]>>
             ELSE <<>>)
            \o claim_diagnoses_from(src, i + 1)

claim_diagnoses(src) == claim_diagnoses_from(src, 1)

\* to_fhir.claims.convert, status and outstanding notes
claim_notes(src) ==
    LET status_values == <<to_str(src.status1), to_str(src.status2), to_str(src.statusp)>>
        outstanding_values ==
            <<to_str(src.outstanding1), to_str(src.outstanding2),
              to_str(src.outstandingp)>>
        status_kept == DropEmpty(status_values)
        outstanding_kept == DropEmpty(outstanding_values)
    IN [k \in 1..Len(status_kept) |-> [text |-> status_kept[k]]]
       \o [k \in 1..Len(outstanding_kept) |->
              [text |-> <<"Outstanding", ":", SP>> \o outstanding_kept[k]]]

\* ISO-8601 text: a date symbol, optionally followed by a separator, a time
\* symbol and a zone symbol.  The symbols datetime.fromisoformat accepts:
ValidDates == {"1990-01-01", "2020-01-15", "2020-02-15"}

ValidTimes == {"00:00:00", "10:30:00"}

ValidOffsets == {"+00:00", "-05:00"}

UTC_OFFSET == "+00:00"

\* datetime.fromisoformat succeeds on s
IsIsoFormat(s) ==
    /\ Len(s) \in {1, 3, 4}
    /\ s[1] \in ValidDates
    /\ Len(s) >= 3 => (s[2] \in {"T", SP} /\ s[3] \in ValidTimes)
    /\ Len(s) = 4 => s[4] \in ValidOffsets

\* fhir_lib.format_datetime: ISO text with an explicit offset, a text
\* without a zone being taken as UTC; None when it does not parse
format_datetime(date_str) ==
    IF ~Truthy(date_str) \/ Strip(date_str) = <<>>
    THEN None
    ELSE LET replaced == Replace(Strip(date_str), "Z", UTC_OFFSET)
         IN IF IsIsoFormat(replaced)
            THEN <<replaced[1], "T",
                   IF Len(replaced) >= 3 THEN replaced[3] ELSE "00:00:00",
                   IF Len(replaced) = 4 THEN replaced[4] ELSE UTC_OFFSET>>
            ELSE None

\* synthea_csv_lib.parse_datetime_to_date: the date of a date or datetime
\* text, None when it does not parse.  The module is not part of the
\* sources; this follows the specification ("a date-only YYYY-MM-DD ... for
\* date mode; invalid input yields the default").
parse_datetime_to_date(s) ==
    IF ~Truthy(s) THEN None
    ELSE LET replaced == Replace(Strip(s), "Z", UTC_OFFSET)
         IN IF IsIsoFormat(replaced) THEN <<replaced[1]>> ELSE None

CLAIM_EVENT == <<"http://synthea.tools/CodeSystem/claim-event">>

\* to_fhir.claims.convert: the event of one date column, when the column
\* is filled and format_datetime can read it
claim_event(date_value, event_code) ==
    IF Truthy(to_str(date_value)) /\ Truthy(format_datetime(to_str(date_value)))
    THEN <<[type |-> [coding |-> <<[system |-> CLAIM_EVENT, code |-> event_code]>>],
            whenDateTime |-> format_datetime(to_str(date_value))]>>
    ELSE <<>>

\* to_fhir.claims.convert: the billing events, then the illness onset
claim_events(src) ==
    claim_event(src.lastbilleddate1, <<"bill-primary">>)
    \o claim_event(src.lastbilleddate2, <<"bill-secondary">>)
    \o claim_event(src.lastbilleddatep, <<"bill-patient">>)
    \o claim_event(src.currentillnessdate, <<"onset">>)

\* to_fhir.claims.convert
claim_to_fhir(src) ==
    LET claim_id == to_str(src.id)
        patient_id == to_str(src.patientid)
        provider_id == to_str(src.providerid)
        primary_insurance_id == to_str(src.primarypatientinsuranceid)
        secondary_insurance_id == to_str(src.secondarypatientinsuranceid)
        department_id == to_str(src.departmentid)
        patient_department_id == to_str(src.patientdepartmentid)
        appointment_id == to_str(src.appointmentid)
        supervising_provider_id == to_str(src.supervisingproviderid)
        healthcare_claim_type_id1 == to_str(src.healthcareclaimtypeid1)
        healthcare_claim_type_id2 == to_str(src.healthcareclaimtypeid2)
    IN [resourceType |-> <<"Claim">>,
        status |-> <<"active">>,
        use |-> <<"claim">>,
        id |-> OrNone(claim_id),
        patient |-> create_reference(PatientKind, patient_id),
        provider |-> create_reference(<<"Practitioner">>, provider_id),
        insurance |->
            (IF primary_insurance_id # <<>>
             THEN <<[sequence |-> 1, focal |-> TRUE,
                     coverage |-> create_reference(<<"Coverage">>, primary_insurance_id)]>>
             ELSE <<>>)
            \o (IF secondary_insurance_id # <<>>
                THEN <<[sequence |-> 2, focal |-> FALSE,
                        coverage |->
                            create_reference(<<"Coverage">>, secondary_insurance_id)]>>
                ELSE <<>>),
        extension |->
            (IF department_id # <<>>
             THEN <<[url |-> DEPARTMENT_URL, valueString |-> department_id]>>
             ELSE <<>>)
            \o (IF patient_department_id # <<>>
                THEN <<[url |-> PATIENT_DEPARTMENT_URL,
                        valueString |-> patient_department_id]>>
                ELSE <<>>),
        diagnosis |-> claim_diagnoses(src),
        item |-> IF appointment_id # <<>>
                 THEN <<[sequence |-> 1,
                         encounter |-> <<create_reference(EncounterKind, appointment_id)>>]>>
                 ELSE <<>>,
        careTeam |-> IF supervising_provider_id # <<>>
                     THEN <<[sequence |-> 1,
                             provider |-> create_reference(<<"Practitioner">>,
                                                           supervising_provider_id),
                             role |-> <<"supervising">>]>>
                     ELSE <<>>,
        type |-> Concept(
                    <<CASE healthcare_claim_type_id1 = <<"1">> ->
                             Coding(CLAIM_TYPE, PROFESSIONAL, <<"Professional">>)
                        [] healthcare_claim_type_id1 = <<"2">> ->
                             Coding(CLAIM_TYPE, INSTITUTIONAL, <<"Institutional">>)
                        [] OTHER -> Coding(CLAIM_TYPE, PROFESSIONAL, None)>>,
                    None),
        subType |-> IF healthcare_claim_type_id2 # <<>>
                    THEN Concept(<<Coding(CLAIM_TYPE, healthcare_claim_type_id2, None)>>,
                                 None)
                    ELSE NoneObj,
        billablePeriod |->
            IF Truthy(to_str(src.servicedate))
               /\ Truthy(format_datetime(to_str(src.servicedate)))
            THEN [start |-> format_datetime(to_str(src.servicedate)),
                  end |-> format_datetime(to_str(src.servicedate))]
            ELSE NoneObj,
        event |-> claim_events(src),
        note |-> claim_notes(src)]

\* synthea_csv_lib.extract_extension_string: the valueString of the first
\* extension with the given url, else "".  Modelled from the specification
\* (side-channel extension with a named value).
extract_extension_string(fhir, url) ==
    LET hits == {i \in 1..Len(fhir.extension) : fhir.extension[i].url = url}
    IN IF hits = {}
       THEN <<>>
       ELSE GetStr(fhir.extension[CHOOSE i \in hits : \A j \in hits : i <= j].valueString)

\* to_synthea.claims.convert, body of the diagnosis loop: the code of the
\* first SNOMED coding, else of the first coding, else ""
diagnosis_code(diagnosis) ==
    LET codings == IF diagnosis.diagnosisCodeableConcept = NoneObj
                   THEN <<>>
                   ELSE diagnosis.diagnosisCodeableConcept.coding
        snomed == {i \in 1..Len(codings) : HasSnomedSubstring(GetStr(codings[i].system))}
        code == IF snomed = {}
                THEN <<>>
                ELSE GetStr(codings[CHOOSE i \in snomed : \A j \in snomed : i <= j].code)
    IN IF codings = <<>>
       THEN <<>>
       ELSE IF code # <<>> THEN code ELSE GetStr(codings[1].code)

\* to_synthea.claims.convert: diagnosis_codes after the loop over
\* diagnoses[:8]; entry i of the list goes to slot i
diagnosis_codes(diagnoses) ==
    [i \in 1..DiagnosisSlots |->
        IF i <= Len(Take(diagnoses, DiagnosisSlots))
        THEN diagnosis_code(diagnoses[i])
        ELSE <<>>]

\* to_synthea.claims.convert, insurance loop over insurance_list[:2]; the
\* entries carry sequence and focal as to_nested writes them
claim_insurance(insurance_list) ==
    LET two == Take(insurance_list, 2)
        isPrimary(i) == two[i].sequence = 1 \/ two[i].focal
        isSecondary(i) == ~isPrimary(i) /\ (two[i].sequence = 2 \/ ~two[i].focal)
        covered == {i \in 1..Len(two) : two[i].coverage # NoneObj}
        prim == {i \in covered : isPrimary(i)}
        sec == {i \in covered : isSecondary(i)}
        last(S) == CHOOSE i \in S : \A j \in S : j <= i
    IN [primary |-> IF prim = {} THEN <<>>
                    ELSE extract_reference_id(two[last(prim)].coverage),
        secondary |-> IF sec = {} THEN <<>>
                      ELSE extract_reference_id(two[last(sec)].coverage)]

\* the claim type read back with the two business codes exchanged
claim_type_id1_swapped(fhir) ==
    IF fhir.type = NoneObj \/ fhir.type.coding = <<>>
    THEN <<>>
    ELSE LET code == GetStr(fhir.type.coding[1].code)
         IN CASE code = PROFESSIONAL -> <<"2">>
              [] code = INSTITUTIONAL -> <<"1">>
              [] OTHER -> <<>>

\* to_synthea.claims.convert, claim type from the first type coding
claim_type_id1(fhir) ==
    IF fhir.type = NoneObj \/ fhir.type.coding = <<>>
    THEN <<>>
    ELSE LET code == GetStr(fhir.type.coding[1].code)
         IN CASE code = PROFESSIONAL -> <<"1">>
              [] code = INSTITUTIONAL -> <<"2">>
              [] OTHER -> <<>>

\* the supervising provider read back as the whole reference text, the
\* resource kind included
claim_supervising_provider_reference(care_team) ==
    LET hits == {i \in 1..Len(care_team) :
                    care_team[i].role = <<"supervising">>
                    /\ care_team[i].provider # NoneObj}
    IN IF hits = {}
       THEN <<>>
       ELSE care_team[CHOOSE i \in hits : \A j \in hits : i <= j].provider.reference

\* to_synthea.claims.convert, supervising provider from careTeam
claim_supervising_provider(care_team) ==
    LET hits == {i \in 1..Len(care_team) :
                    care_team[i].role = <<"supervising">>
                    /\ care_team[i].provider # NoneObj}
    IN IF hits = {}
       THEN <<>>
       ELSE extract_reference_id(care_team[CHOOSE i \in hits : \A j \in hits : i <= j].provider)

claim_to_synthea_warnings_offbyone(fhir) ==
    IF Len(fhir.diagnosis) >= DiagnosisSlots THEN 1 ELSE 0

\* to_synthea.claims.convert: the number of warnings it logs
claim_to_synthea_warnings(fhir) ==
    IF Len(fhir.diagnosis) > DiagnosisSlots THEN 1 ELSE 0

\* to_synthea.claims._find_event_by_code: the date of the first event that
\* has a coding with the code and a time that can be read
find_event_by_code(events, event_code) ==
    LET hits == {i \in DOMAIN events :
                    /\ \E j \in DOMAIN events[i].type.coding :
                           GetStr(events[i].type.coding[j].code) = event_code
                    /\ Truthy(events[i].whenDateTime)
                    /\ Truthy(parse_datetime_to_date(events[i].whenDateTime))}
    IN IF hits = {} THEN None
       ELSE parse_datetime_to_date(
                events[CHOOSE i \in hits : \A j \in hits : i <= j].whenDateTime)

\* to_synthea.claims.convert: the service date from billablePeriod.start,
\* from billablePeriod.end when there is no start
claim_service_date(fhir) ==
    IF fhir.billablePeriod = NoneObj THEN None
    ELSE IF Truthy(fhir.billablePeriod.start)
         THEN parse_datetime_to_date(fhir.billablePeriod.start)
         ELSE IF Truthy(fhir.billablePeriod["end"])
              THEN parse_datetime_to_date(fhir.billablePeriod["end"])
              ELSE None

\* to_synthea.claims.convert: the flat row
claim_to_synthea(fhir) ==
    LET codes == diagnosis_codes(fhir.diagnosis)
        ins == claim_insurance(fhir.insurance)
        appointment_id ==
            IF fhir.item # <<>> /\ fhir.item[1].encounter # <<>>
            THEN extract_reference_id(fhir.item[1].encounter[1])
            ELSE <<>>
        sub_type == IF fhir.subType # NoneObj /\ fhir.subType.coding # <<>>
                    THEN GetStr(fhir.subType.coding[1].code)
                    ELSE <<>>
    IN [id |-> OrNone(GetStr(fhir.id)),
        patientid |-> OrNone(extract_reference_id(fhir.patient)),
        providerid |-> OrNone(extract_reference_id(fhir.provider)),
        primarypatientinsuranceid |-> OrNone(ins.primary),
        secondarypatientinsuranceid |-> OrNone(ins.secondary),
        departmentid |-> OrNone(extract_extension_string(fhir, DEPARTMENT_URL)),
        patientdepartmentid |->
            OrNone(extract_extension_string(fhir, PATIENT_DEPARTMENT_URL)),
        diagnosis |-> [i \in 1..DiagnosisSlots |-> OrNone(codes[i])],
        appointmentid |-> OrNone(appointment_id),
        currentillnessdate |-> find_event_by_code(fhir.event, <<"onset">>),
        servicedate |-> claim_service_date(fhir),
        supervisingproviderid |-> OrNone(claim_supervising_provider(fhir.careTeam)),
        lastbilleddate1 |-> find_event_by_code(fhir.event, <<"bill-primary">>),
        lastbilleddate2 |-> find_event_by_code(fhir.event, <<"bill-secondary">>),
        lastbilleddatep |-> find_event_by_code(fhir.event, <<"bill-patient">>),
        status1 |-> None,
        status2 |-> None,
        statusp |-> None,
        outstanding1 |-> None,
        outstanding2 |-> None,
        outstandingp |-> None,
        healthcareclaimtypeid1 |-> OrNone(claim_type_id1(fhir)),
        healthcareclaimtypeid2 |-> OrNone(sub_type)]

(***************************************************************************)
(* Specification SpecClaim: a flat claim converted to nested and back, and *)
(* nested claims with up to MaxDiagnoses diagnoses converted to flat       *)
(***************************************************************************)
FlatClaims ==
    {[id |-> <<"c1">>,
      patientid |-> <<"p1">>,
      providerid |-> <<"d1">>,
      primarypatientinsuranceid |-> <<"i1">>,
      secondarypatientinsuranceid |-> None,
      departmentid |-> <<"7">>,
      patientdepartmentid |-> None,
      diagnosis |-> dg,
      appointmentid |-> <<"e1">>,
      currentillnessdate |-> None,
      servicedate |-> <<"2020-01-15">>,
      supervisingproviderid |-> <<"d1">>,
      lastbilleddate1 |-> None,
      lastbilleddate2 |-> None,
      lastbilleddatep |-> None,
      status1 |-> <<"CLOSED">>,
      status2 |-> None,
      statusp |-> None,
      outstanding1 |-> <<"0">>,
      outstanding2 |-> None,
      outstandingp |-> None,
      healthcareclaimtypeid1 |-> t1,
      healthcareclaimtypeid2 |-> None] :
        dg \in [1..DiagnosisSlots -> {None, <<"D1">>, <<"D2">>}],
        t1 \in {None, <<"1">>, <<"2">>, <<"3">>}}

\* nested diagnoses with a known expected code
DiagSnomed1 == Concept(<<Coding(SNOMED, <<"D1">>, None)>>, None)

DiagSnomed2 == Concept(<<Coding(SNOMED, <<"D2">>, None)>>, None)

DiagOtherThenSnomed ==
    Concept(<<Coding(OTHER_SYSTEM, <<"X1">>, None), Coding(SNOMED, <<"D3">>, None)>>, None)

DiagOtherOnly == Concept(<<Coding(OTHER_SYSTEM, <<"X1">>, None)>>, None)

DiagNoCoding == Concept(<<>>, <<"free text">>)

SpecialDiags == {DiagOtherThenSnomed, DiagOtherOnly, DiagNoCoding, NoneObj}

\* lists over the two plain diagnoses, and the same lists with the first or
\* the last entry replaced by a special one
DiagConceptLists ==
    LET plain == SeqsOf({DiagSnomed1, DiagSnomed2}, 0, MaxDiagnoses)
    IN plain
       \cup UNION {{[l EXCEPT ![1] = d], [l EXCEPT ![Len(l)] = d]} :
                l \in {x \in plain : x # <<>>}, d \in SpecialDiags}

NestedClaims ==
    {[resourceType |-> <<"Claim">>,
      status |-> <<"active">>,
      use |-> <<"claim">>,
      id |-> <<"c1">>,
      patient |-> [reference |-> RefString(PatientKind, <<"p1">>)],
      provider |-> NoneObj,
      insurance |-> <<>>,
      extension |-> <<>>,
      diagnosis |-> [i \in 1..Len(l) |->
                        [sequence |-> i, diagnosisCodeableConcept |-> l[i]]],
      item |-> <<>>,
      careTeam |-> <<>>,
      type |-> Concept(<<Coding(CLAIM_TYPE, INSTITUTIONAL, None)>>, None),
      subType |-> NoneObj,
      billablePeriod |-> NoneObj,
      event |-> <<>>,
      note |-> <<>>] : l \in DiagConceptLists}

InitClaim ==
    /\ output = NoneObj
    /\ warnings = 0
    /\ \/ /\ pc = "start"
          /\ input \in {NoOverrides(c) : c \in FlatClaims}
          /\ doc = NoneObj
       \/ /\ pc = "nested"
          /\ input = NoneObj
          /\ doc \in NestedClaims

ClaimToFhir ==
    /\ pc = "start"
    /\ doc' = claim_to_fhir(input.src)
    /\ pc' = "nested"
    /\ UNCHANGED <<input, output, warnings>>

ClaimToSynthea ==
    /\ pc = "nested"
    /\ output' = claim_to_synthea(doc)
    /\ warnings' = warnings + claim_to_synthea_warnings(doc)
    /\ pc' = "flat"
    /\ UNCHANGED <<input, doc>>

NextClaim == ClaimToFhir \/ ClaimToSynthea

SpecClaim == InitClaim /\ [][NextClaim]_vars

\* C19: to_nested gives a flat claim the type code "professional" for
\* healthcareclaimtypeid1 "1", "institutional" for "2" and the fallback
\* "professional" for any other or missing value; to_flat maps
\* "professional" back to "1" and "institutional" back to "2".
C19_ClaimType ==
    /\ (pc \in {"nested", "flat"} /\ input # NoneObj) =>
           /\ Len(doc.type.coding) = 1
           /\ doc.type.coding[1].code =
                  (CASE input.src.healthcareclaimtypeid1 = <<"1">> -> PROFESSIONAL
                     [] input.src.healthcareclaimtypeid1 = <<"2">> -> INSTITUTIONAL
                     [] OTHER -> PROFESSIONAL)
    /\ (pc = "flat") =>
           /\ doc.type.coding[1].code = PROFESSIONAL =>
                  output.healthcareclaimtypeid1 = <<"1">>
           /\ doc.type.coding[1].code = INSTITUTIONAL =>
                  output.healthcareclaimtypeid1 = <<"2">>

C19_Witness ==
    /\ pc = "flat"
    /\ input # NoneObj
    /\ input.src.healthcareclaimtypeid1 = <<"3">>
    /\ doc.type.coding[1].code = PROFESSIONAL
    /\ output.healthcareclaimtypeid1 = <<"1">>

\* the code each sample diagnosis is expected to leave in its slot
ExpectedDiagnosisCode(concept) ==
    CASE concept = DiagSnomed1 -> <<"D1">>
      [] concept = DiagSnomed2 -> <<"D2">>
      [] concept = DiagOtherThenSnomed -> <<"D3">>
      [] concept = DiagOtherOnly -> <<"X1">>
      [] OTHER -> None

\* C7: to_flat on a nested claim with n diagnoses copies the first 8 (in list
\* order) into diagnosis1..diagnosis8, drops the rest, logs exactly one
\* warning when n > 8 and none when n <= 8, and returns a row for every n.
C7_DiagnosisTruncation ==
    (pc = "flat" /\ input = NoneObj) =>
        /\ \A i \in 1..DiagnosisSlots :
              output.diagnosis[i] =
                  IF i <= Len(doc.diagnosis)
                  THEN ExpectedDiagnosisCode(doc.diagnosis[i].diagnosisCodeableConcept)
                  ELSE None
        /\ Len(output.diagnosis) = DiagnosisSlots
        /\ warnings = IF Len(doc.diagnosis) > DiagnosisSlots THEN 1 ELSE 0

C7_Witness ==
    /\ pc = "flat"
    /\ input = NoneObj
    /\ Len(doc.diagnosis) = DiagnosisSlots + 1
    /\ doc.diagnosis[DiagnosisSlots + 1].diagnosisCodeableConcept = DiagSnomed2
    /\ output.diagnosis[DiagnosisSlots] = <<"D1">>
    /\ warnings = 1

\* C8: for every flat claim c, to_flat(to_nested(c)) has diagnosis_i equal to
\* diagnosis_i of c for every i in 1..8, also when a lower-numbered slot of c
\* is empty and a higher-numbered slot is filled.
C8_DiagnosisSlotRoundTrip ==
    (pc = "flat" /\ input # NoneObj) =>
        \A i \in 1..DiagnosisSlots : output.diagnosis[i] = input.src.diagnosis[i]

\* ---------------------------------------------------------------------
\* Allergy <-> AllergyIntolerance
\* (to_fhir/allergy.py, to_synthea/allergy.py).  Of the dates only what
\* enters the resource id and the clinical status is carried.
\* ---------------------------------------------------------------------

\* number of reaction slots of a flat allergy (reaction1, reaction2)
ReactionSlots == 2

ALLERGY_CLINICAL ==
    <<"http://terminology.hl7.org/CodeSystem/allergyintolerance-clinical">>

ALLERGY_TYPE == <<"http://hl7.org/fhir/allergy-intolerance-type">>

\* fhir_lib.normalize_allergy_category
normalize_allergy_category(category) ==
    IF ~Truthy(category)
    THEN None
    ELSE LET category_lower == Strip(Lower(category))
         IN CASE category_lower = <<"drug">> -> <<"medication">>
              [] category_lower = <<"medication">> -> <<"medication">>
              [] category_lower = <<"food">> -> <<"food">>
              [] category_lower = <<"environment">> -> <<"environment">>
              [] OTHER -> None

\* fhir_lib.create_clinical_status_coding with the two codes exchanged
create_clinical_status_coding_swapped(is_active, status_system) ==
    LET status_code == IF is_active THEN <<"resolved">> ELSE <<"active">>
    IN Concept(<<Coding(status_system, status_code, Capitalize(status_code))>>,
               None)

\* fhir_lib.create_clinical_status_coding
create_clinical_status_coding(is_active, status_system) ==
    LET status_code == IF is_active THEN <<"active">> ELSE <<"resolved">>
    IN Concept(<<Coding(status_system, status_code, Capitalize(status_code))>>,
               None)

\* the substance concept: a coding when code or system is given, the
\* description as display and as text
allergy_code_concept(code, system, description) ==
    IF ~(Truthy(code) \/ Truthy(system) \/ Truthy(description))
    THEN NoneObj
    ELSE Concept(IF Truthy(code) \/ Truthy(system)
                 THEN <<Coding(OrNone(system), OrNone(code),
                               OrNone(description))>>
                 ELSE <<>>,
                 OrNone(description))

\* one reaction entry of the nested allergy; the manifestation is a
\* CodeableReference, i.e. the concept sits under the key "concept"
allergy_reaction_entry(code, desc, severity) ==
    [manifestation |->
        IF Truthy(code)
        THEN <<[concept |-> Concept(<<Coding(SNOMED, code, None)>>, None)]>>
        ELSE <<>>,
     description |-> OrNone(desc),
     severity |-> IF Truthy(severity) THEN Lower(severity) ELSE None]

\* the reactions array: slot k contributes when it has a code or a
\* description
allergy_reactions(d) ==
    (IF Truthy(to_str(d.reaction1)) \/ Truthy(to_str(d.description1))
     THEN <<allergy_reaction_entry(to_str(d.reaction1), to_str(d.description1),
                                   to_str(d.severity1))>>
     ELSE <<>>)
    \o
    (IF Truthy(to_str(d.reaction2)) \/ Truthy(to_str(d.description2))
     THEN <<allergy_reaction_entry(to_str(d.reaction2), to_str(d.description2),
                                   to_str(d.severity2))>>
     ELSE <<>>)

\* to_fhir.allergy.convert: takes no reference overrides
allergy_to_fhir(d) ==
    LET patient_id == to_str(d.patient)
        encounter_id == to_str(d.encounter)
        allergy_type == to_str(d.type)
        normalized_category == normalize_allergy_category(to_str(d.category))
    IN [resourceType |-> AllergyKind,
        id |-> SyntheticId(patient_id, to_str(d.start), to_str(d.code)),
        clinicalStatus |->
            create_clinical_status_coding(~Truthy(to_str(d.stop)),
                                          ALLERGY_CLINICAL),
        patient |-> IF Truthy(patient_id)
                    THEN create_reference(PatientKind, patient_id)
                    ELSE NoneObj,
        encounter |-> IF Truthy(encounter_id)
                      THEN create_reference(EncounterKind, encounter_id)
                      ELSE NoneObj,
        code |-> allergy_code_concept(to_str(d.code), to_str(d.system),
                                      to_str(d.description)),
        type |-> IF Truthy(allergy_type)
                 THEN Concept(<<Coding(ALLERGY_TYPE, Lower(allergy_type),
                                       Capitalize(Lower(allergy_type)))>>,
                              None)
                 ELSE NoneObj,
        category |-> IF Truthy(normalized_category)
                     THEN <<normalized_category>>
                     ELSE <<>>,
        reaction |-> allergy_reactions(d)]

\* the flat slot filled from reactions[k - 1] of the nested allergy: code of
\* the first manifestation, description, upper-cased severity; all empty
\* when the list is shorter than k
allergy_reaction_slot(reactions, k) ==
    IF Len(reactions) > k - 1
    THEN LET r == reactions[k]
         IN [code |-> IF r.manifestation # <<>>
                      THEN extract_coding_code(r.manifestation[1], <<SNOMED>>)
                      ELSE <<>>,
             description |-> GetStr(r.description),
             severity |-> IF Truthy(r.severity) THEN Upper(r.severity)
                          ELSE <<>>]
    ELSE [code |-> <<>>, description |-> <<>>, severity |-> <<>>]

\* the lossy-conversion log of to_synthea.allergy.convert, with the
\* threshold one too low
allergy_to_synthea_warnings_low(fhir) ==
    IF Len(fhir.reaction) > ReactionSlots - 1 THEN 1 ELSE 0

\* number of warnings to_synthea.allergy.convert logs
allergy_to_synthea_warnings(fhir) ==
    IF Len(fhir.reaction) > ReactionSlots THEN 1 ELSE 0

\* to_synthea.allergy.convert
allergy_to_synthea(fhir) ==
    LET r1 == allergy_reaction_slot(fhir.reaction, 1)
        r2 == allergy_reaction_slot(fhir.reaction, 2)
    IN [patient |-> OrNone(extract_reference_id(fhir.patient)),
        encounter |-> OrNone(extract_reference_id(fhir.encounter)),
        code |-> OrNone(extract_coding_code(fhir.code, <<SNOMED, RXNORM>>)),
        system |-> OrNone(extract_coding_system(fhir.code)),
        description |-> OrNone(extract_display_or_text(fhir.code)),
        type |-> OrNone(extract_coding_code(fhir.type, <<ALLERGY_TYPE>>)),
        category |-> IF fhir.category # <<>> THEN OrNone(fhir.category[1])
                     ELSE None,
        reaction1 |-> OrNone(r1.code),
        description1 |-> OrNone(r1.description),
        severity1 |-> OrNone(r1.severity),
        reaction2 |-> OrNone(r2.code),
        description2 |-> OrNone(r2.description),
        severity2 |-> OrNone(r2.severity)]

\* --- allergy conversions as a state machine ----------------------------

FlatAllergies ==
    [start : {<<"2020-01-01">>},
     stop : {None, <<"2021-01-01">>},
     patient : {<<"p1">>},
     encounter : {None, <<"e1">>},
     code : {<<"A1">>},
     system : {SNOMED},
     description : {None, <<"Peanut">>},
     type : {None, <<"Allergy">>},
     category : {None, <<"food">>, <<"Drug">>},
     reaction1 : {None, <<"R1">>},
     description1 : {None, <<"Rash">>},
     severity1 : {None, <<"MILD">>},
     reaction2 : {None, <<"R2">>},
     description2 : {None, <<"Hives">>},
     severity2 : {None, <<"SEVERE">>}]

\* a reaction whose manifestation is a plain concept with SNOMED code R1
ReactionRash ==
    [manifestation |-> <<Concept(<<Coding(SNOMED, <<"R1">>, None)>>, None)>>,
     description |-> <<"Rash">>,
     severity |-> <<"mild">>]

\* a reaction as to_fhir builds it (CodeableReference manifestation)
ReactionHives == allergy_reaction_entry(<<"R2">>, <<"Hives">>, <<"SEVERE">>)

\* a reaction with no manifestation, description or severity
ReactionBare ==
    [manifestation |-> <<>>, description |-> None, severity |-> None]

ReactionOptions == {ReactionRash, ReactionHives, ReactionBare}

NestedAllergies ==
    {[resourceType |-> AllergyKind,
      id |-> <<"al1">>,
      clinicalStatus |-> create_clinical_status_coding(TRUE, ALLERGY_CLINICAL),
      patient |-> create_reference(PatientKind, <<"p1">>),
      encounter |-> NoneObj,
      code |-> allergy_code_concept(<<"A1">>, SNOMED, <<"Peanut">>),
      type |-> NoneObj,
      category |-> cat,
      reaction |-> rs] :
        cat \in {<<>>, <<<<"food">>>>},
        rs \in SeqsOf(ReactionOptions, 0, MaxReactions)}

InitAllergy ==
    /\ output = NoneObj
    /\ warnings = 0
    /\ \/ /\ pc = "start"
          /\ input \in FlatAllergies
          /\ doc = NoneObj
       \/ /\ pc = "nested"
          /\ input = NoneObj
          /\ doc \in NestedAllergies

\* to_nested on a flat allergy
AllergyToFhir ==
    /\ pc = "start"
    /\ doc' = allergy_to_fhir(input)
    /\ pc' = "nested"
    /\ UNCHANGED <<input, output, warnings>>

\* to_flat on a nested allergy
AllergyToSynthea ==
    /\ pc = "nested"
    /\ output' = allergy_to_synthea(doc)
    /\ warnings' = allergy_to_synthea_warnings(doc)
    /\ pc' = "flat"
    /\ UNCHANGED <<input, doc>>

NextAllergy == AllergyToFhir \/ AllergyToSynthea

SpecAllergy == InitAllergy /\ [][NextAllergy]_vars

\* the flat description and severity a given reaction entry must yield
ExpectedReaction(reactions, k) ==
    IF k <= Len(reactions)
    THEN [description |-> reactions[k].description,
          severity |-> IF reactions[k].severity = None THEN None
                       ELSE Upper(reactions[k].severity)]
    ELSE [description |-> None, severity |-> None]

MRN_SYSTEM == <<"urn:oid:2.16.840.1.113883.19.5">>

\* fhir_lib.format_date returning the whole parsed text, not its date part
format_date_whole(date_str) ==
    IF ~Truthy(date_str) \/ Strip(date_str) = <<>>
    THEN None
    ELSE LET replaced == Replace(date_str, "Z", UTC_OFFSET)
         IN IF IsIsoFormat(replaced) THEN replaced ELSE None

\* fhir_lib.format_date: the date part of a parseable date or datetime,
\* None for anything else
format_date(date_str) ==
    IF ~Truthy(date_str) \/ Strip(date_str) = <<>>
    THEN None
    ELSE LET replaced == Replace(date_str, "Z", UTC_OFFSET)
         IN IF IsIsoFormat(replaced) THEN <<replaced[1]>> ELSE None

UNKNOWN == <<"Unknown">>

\* fhir_lib.map_gender
map_gender(gender_str) ==
    IF ~Truthy(gender_str)
    THEN None
    ELSE LET g == Strip(Upper(gender_str))
         IN CASE g = <<"M">> -> <<"male">>
              [] g = <<"F">> -> <<"female">>
              [] OTHER -> None

\* a one-element list for a present value, the empty list otherwise
ListOf(s) == IF Truthy(s) THEN <<s>> ELSE <<>>

\* the name list to_fhir.patient.convert builds: the official name when
\* any of its parts is present, then the maiden name
patient_names(prefix, first, last, suffix, maiden) ==
    (IF Truthy(first) \/ Truthy(last) \/ Truthy(prefix) \/ Truthy(suffix)
     THEN <<[use |-> <<"official">>,
             prefix |-> ListOf(prefix),
             given |-> ListOf(first),
             family |-> OrNone(last),
             suffix |-> ListOf(suffix)]>>
     ELSE <<>>)
    \o
    (IF Truthy(maiden)
     THEN <<[use |-> <<"maiden">>, prefix |-> <<>>, given |-> <<>>,
             family |-> maiden, suffix |-> <<>>]>>
     ELSE <<>>)

\* to_fhir.patient.convert
patient_to_fhir(d) ==
    LET patient_id == to_str(d.id)
        birthdate == to_str(d.birthdate)
        address == to_str(d.address)
        city == to_str(d.city)
    IN [resourceType |-> PatientKind,
        id |-> OrNone(patient_id),
        birthDate |-> IF Truthy(birthdate) THEN format_date(birthdate)
                      ELSE None,
        identifier |-> IF Truthy(patient_id)
                       THEN <<[system |-> MRN_SYSTEM, value |-> patient_id]>>
                       ELSE <<>>,
        name |-> patient_names(to_str(d.prefix), to_str(d.first),
                               to_str(d.last), to_str(d.suffix),
                               to_str(d.maiden)),
        gender |-> map_gender(to_str(d.gender)),
        address |-> IF Truthy(address) \/ Truthy(city)
                    THEN <<[use |-> <<"home">>, line |-> ListOf(address),
                            city |-> OrNone(city)]>>
                    ELSE <<>>]

\* to_synthea.patient._extract_name_part: the name with the given use, else
\* the first name of the list
target_name(names, use) ==
    LET hits == {i \in 1..Len(names) : names[i].use = use}
    IN IF hits # {}
       THEN names[CHOOSE i \in hits : \A j \in hits : i <= j]
       ELSE names[1]

\* to_synthea.patient._extract_name_part
extract_name_part(names, use, part) ==
    IF names = <<>>
    THEN <<>>
    ELSE LET t == target_name(names, use)
         IN CASE part = "given" -> IF t.given # <<>> THEN t.given[1] ELSE <<>>
              [] part = "family" -> GetStr(t.family)
              [] part = "prefix" -> IF t.prefix # <<>> THEN t.prefix[1] ELSE <<>>
              [] part = "suffix" -> IF t.suffix # <<>> THEN t.suffix[1] ELSE <<>>

\* to_synthea.patient._extract_maiden_name
extract_maiden_name(names) ==
    LET hits == {i \in 1..Len(names) : names[i].use = <<"maiden">>}
    IN IF hits = {}
       THEN <<>>
       ELSE GetStr(names[CHOOSE i \in hits : \A j \in hits : i <= j].family)

\* to_synthea.patient._map_fhir_gender with the table entries swapped
map_fhir_gender_swapped(gender) ==
    IF ~Truthy(gender)
    THEN <<"M">>
    ELSE CASE Lower(gender) = <<"male">> -> <<"F">>
           [] Lower(gender) = <<"female">> -> <<"M">>
           [] OTHER -> <<"M">>

\* to_synthea.patient._map_fhir_gender
map_fhir_gender(gender) ==
    IF ~Truthy(gender)
    THEN <<"M">>
    ELSE CASE Lower(gender) = <<"male">> -> <<"M">>
           [] Lower(gender) = <<"female">> -> <<"F">>
           [] OTHER -> <<"M">>

\* to_synthea.patient.convert
patient_to_synthea(fhir) ==
    LET names == fhir.name
        addresses == fhir.address
    IN [id |-> OrNone(GetStr(fhir.id)),
        birthdate |-> fhir.birthDate,
        prefix |-> OrNone(extract_name_part(names, <<"official">>, "prefix")),
        first |-> OrDefault(extract_name_part(names, <<"official">>, "given"),
                            UNKNOWN),
        last |-> OrDefault(extract_name_part(names, <<"official">>, "family"),
                           UNKNOWN),
        suffix |-> OrNone(extract_name_part(names, <<"official">>, "suffix")),
        maiden |-> OrNone(extract_maiden_name(names)),
        gender |-> map_fhir_gender(fhir.gender),
        address |-> OrDefault(IF addresses # <<>> /\ addresses[1].line # <<>>
                              THEN addresses[1].line[1] ELSE <<>>, UNKNOWN),
        city |-> OrDefault(IF addresses # <<>> THEN GetStr(addresses[1].city)
                           ELSE <<>>, UNKNOWN)]

\* number of warnings to_synthea.patient.convert logs
patient_to_synthea_warnings(fhir) ==
    (IF Len(fhir.name) > 2 THEN 1 ELSE 0)
    + (IF Len(fhir.address) > 1 THEN 1 ELSE 0)

\* ---------------------------------------------------------------------
\* Condition <-> Condition (to_fhir/condition.py, to_synthea/condition.py);
\* onset and abatement dates are left out.
\* ---------------------------------------------------------------------

CONDITION_CLINICAL ==
    <<"http://terminology.hl7.org/CodeSystem/condition-clinical">>

CONDITION_CATEGORY ==
    <<"http://terminology.hl7.org/CodeSystem/condition-category">>

\* to_fhir.condition.convert
condition_to_fhir(d, patient_ref, encounter_ref) ==
    LET patient_id == to_str(d.patient)
        encounter_id == to_str(d.encounter)
        code == to_str(d.code)
        description == to_str(d.description)
    IN [resourceType |-> ConditionKind,
        id |-> SyntheticId(patient_id, to_str(d.start), code),
        clinicalStatus |->
            create_clinical_status_coding(~Truthy(to_str(d.stop)),
                                          CONDITION_CLINICAL),
        category |->
            <<Concept(<<Coding(CONDITION_CATEGORY, <<"encounter-diagnosis">>,
                               <<"Encounter Diagnosis">>)>>, None)>>,
        subject |-> EffectiveRef(patient_ref, PatientKind, patient_id),
        encounter |-> EffectiveRef(encounter_ref, EncounterKind, encounter_id),
        code |-> SnomedConcept(code, description)]

\* to_synthea.condition.convert
condition_to_synthea(fhir) ==
    [patient |-> OrNone(extract_reference_id(fhir.subject)),
     encounter |-> OrNone(extract_reference_id(fhir.encounter)),
     code |-> OrDefault(extract_coding_code(fhir.code, <<SNOMED>>),
                        <<"unknown">>),
     description |-> OrDefault(extract_display_or_text(fhir.code),
                               <<"Unknown condition">>)]

\* number of warnings to_synthea.condition.convert logs
condition_to_synthea_warnings(fhir) ==
    IF Len(fhir.category) > 1 THEN 1 ELSE 0

\* ---------------------------------------------------------------------
\* Bundle orchestration (bundle.py, extract.py)
\* ---------------------------------------------------------------------

COLLECTION == <<"collection">>

\* f"urn:uuid:{id}"
FullUrl(id) == <<"urn:uuid:">> \o id

BundleEntry(resource) == [fullUrl |-> FullUrl(resource.id), resource |-> resource]

\* "xs or []": an omitted list argument counts as the empty list
OrEmpty(arg) == IF arg = NoneObj THEN <<>> ELSE arg.items

\* encounter_refs.get(key): the reference stored by the last encounter
\* whose id is key, none when there is no such encounter
encounter_refs_get(encounters, patient_ref, key) ==
    LET hits == {i \in 1..Len(encounters) : encounters[i].id = key}
    IN IF hits = {}
       THEN None
       ELSE LET last == CHOOSE i \in hits : \A j \in hits : j <= i
                fhir_enc == encounter_to_fhir(encounters[last], patient_ref,
                                              None, None)
            IN RefString(EncounterKind, fhir_enc.id)

\* the entries of the bundle in the order patient_bundle appends them
bundle_entries(patient, encounters, conditions, allergies) ==
    LET fhir_patient == patient_to_fhir(patient)
        patient_ref == RefString(PatientKind, fhir_patient.id)
        enc_ref(cond) ==
            IF Truthy(cond.encounter)
            THEN encounter_refs_get(encounters, patient_ref, cond.encounter)
            ELSE None
    IN [patient |-> <<BundleEntry(fhir_patient)>>,
        encounters |->
            [i \in DOMAIN encounters |->
                BundleEntry(encounter_to_fhir(encounters[i], patient_ref,
                                              None, None))],
        conditions |->
            [i \in DOMAIN conditions |->
                BundleEntry(condition_to_fhir(conditions[i], patient_ref,
                                              enc_ref(conditions[i])))],
        allergies |->
            [i \in DOMAIN allergies |->
                BundleEntry(allergy_to_fhir(allergies[i]))]]

\* patient_bundle with the conditions appended before the encounters
patient_bundle_reordered(patient, encounters, conditions, allergies) ==
    LET e == bundle_entries(patient, OrEmpty(encounters), OrEmpty(conditions),
                            OrEmpty(allergies))
    IN [type |-> COLLECTION,
        entry |-> e.patient \o e.conditions \o e.encounters \o e.allergies]

\* bundle.patient_bundle
patient_bundle(patient, encounters, conditions, allergies) ==
    LET e == bundle_entries(patient, OrEmpty(encounters), OrEmpty(conditions),
                            OrEmpty(allergies))
    IN [type |-> COLLECTION,
        entry |-> e.patient \o e.encounters \o e.conditions \o e.allergies]

\* the four tables extract_tables starts from
EmptyTables ==
    [patients |-> <<>>, encounters |-> <<>>, conditions |-> <<>>,
     allergies |-> <<>>]

\* the loop of extract_tables over the entries
RECURSIVE extract_entries(_, _)
extract_entries(entries, tables) ==
    IF entries = <<>>
    THEN tables
    ELSE LET resource == Head(entries).resource
             next ==
                IF resource = NoneObj
                THEN tables
                ELSE CASE resource.resourceType = PatientKind ->
                            [tables EXCEPT !.patients =
                                Append(@, patient_to_synthea(resource))]
                       [] resource.resourceType = EncounterKind ->
                            [tables EXCEPT !.encounters =
                                Append(@, encounter_to_synthea(resource))]
                       [] resource.resourceType = ConditionKind ->
                            [tables EXCEPT !.conditions =
                                Append(@, condition_to_synthea(resource))]
                       [] resource.resourceType = AllergyKind ->
                            [tables EXCEPT !.allergies =
                                Append(@, allergy_to_synthea(resource))]
                       [] OTHER -> tables
         IN extract_entries(Tail(entries), next)

\* the warnings the converters log during extract_tables
RECURSIVE extract_warnings(_)
extract_warnings(entries) ==
    IF entries = <<>>
    THEN 0
    ELSE LET resource == Head(entries).resource
             n == IF resource = NoneObj
                  THEN 0
                  ELSE CASE resource.resourceType = PatientKind ->
                              patient_to_synthea_warnings(resource)
                         [] resource.resourceType = EncounterKind ->
                              encounter_to_synthea_warnings(resource)
                         [] resource.resourceType = ConditionKind ->
                              condition_to_synthea_warnings(resource)
                         [] resource.resourceType = AllergyKind ->
                              allergy_to_synthea_warnings(resource)
                         [] OTHER -> 0
         IN n + extract_warnings(Tail(entries))

\* extract_tables that passes over the first entry
extract_tables_skipfirst(bundle) ==
    IF bundle.entry = <<>>
    THEN EmptyTables
    ELSE extract_entries(Tail(bundle.entry), EmptyTables)

\* extract.extract_tables
extract_tables(bundle) ==
    IF bundle.entry = <<>>
    THEN EmptyTables
    ELSE extract_entries(bundle.entry, EmptyTables)

\* --- the bundle operations as a state machine ---------------------------

BundlePatients ==
    [id : {<<"p1">>},
     birthdate : {<<"1990-01-01">>},
     prefix : {None},
     first : {<<"Ann">>, <<"Bob">>},
     last : {<<"Lee">>},
     suffix : {None},
     maiden : {None, <<"Kay">>},
     gender : {<<"M">>, <<"F">>},
     address : {<<"1 Main St">>},
     city : {<<"Springfield">>}]

\* an encounter of patient pid
BundleEncounter(id, pid, class, code) ==
    [id |-> id, start |-> <<"2020-01-01">>, stop |-> <<"2020-01-02">>,
     patient |-> pid, organization |-> <<"o1">>, provider |-> None,
     payer |-> None, encounterclass |-> class, code |-> code,
     description |-> <<"Encounter for symptom">>, reasoncode |-> None,
     reasondescription |-> None]

BundleEncounters ==
    {BundleEncounter(<<"e1">>, <<"p1">>, AMBULATORY, <<"185345009">>),
     BundleEncounter(<<"e2">>, <<"p2">>, EMERGENCY, <<"50849002">>)}

BundleCondition(pid, eid, code, description) ==
    [start |-> <<"2020-01-01">>, stop |-> None, patient |-> pid,
     encounter |-> eid, code |-> code, description |-> description]

BundleConditions ==
    {BundleCondition(<<"p1">>, <<"e1">>, <<"C1">>, <<"Cough">>),
     BundleCondition(<<"p2">>, None, <<"C2">>, <<"Fever">>),
     BundleCondition(<<"p1">>, <<"e3">>, <<"C3">>, <<"Sprain">>)}

BundleAllergy(pid, code, description) ==
    [start |-> <<"2020-01-01">>, stop |-> None, patient |-> pid,
     encounter |-> None, code |-> code, system |-> SNOMED,
     description |-> description, type |-> <<"allergy">>,
     category |-> <<"food">>, reaction1 |-> None, description1 |-> None,
     severity1 |-> None, reaction2 |-> None, description2 |-> None,
     severity2 |-> None]

BundleAllergies ==
    {BundleAllergy(<<"p1">>, <<"A1">>, <<"Peanut">>),
     BundleAllergy(<<"p2">>, <<"A2">>, None)}

\* a list argument: omitted, or a list of at most MaxChildren records
ListArgs(records) ==
    {NoneObj} \cup {[items |-> l] : l \in SeqsOf(records, 0, MaxChildren)}

BundleInputs ==
    [patient : BundlePatients,
     encounters : ListArgs(BundleEncounters),
     conditions : ListArgs(BundleConditions),
     allergies : ListArgs(BundleAllergies)]

\* an entry that carries no resource
EmptyEntry == [fullUrl |-> None, resource |-> NoneObj]

\* a resource of a kind extract_tables has no table for
OrganizationResource ==
    [resourceType |-> OrganizationKind, id |-> <<"o1">>]

ForeignEntries ==
    {EmptyEntry,
     BundleEntry(OrganizationResource),
     BundleEntry(patient_to_fhir(CHOOSE p \in BundlePatients :
                                    p.first = <<"Ann">> /\ p.gender = <<"F">>
                                    /\ p.maiden = None)),
     BundleEntry(encounter_to_fhir(
        BundleEncounter(<<"e1">>, <<"p1">>, AMBULATORY, <<"185345009">>),
        None, None, None)),
     BundleEntry(encounter_to_fhir(
        BundleEncounter(<<"e2">>, <<"p2">>, EMERGENCY, <<"50849002">>),
        None, None, None)),
     BundleEntry(condition_to_fhir(
        BundleCondition(<<"p1">>, <<"e1">>, <<"C1">>, <<"Cough">>), None, None)),
     BundleEntry(allergy_to_fhir(BundleAllergy(<<"p1">>, <<"A1">>, <<"Peanut">>)))}

\* collections that do not come from patient_bundle
ForeignBundles ==
    {[type |-> COLLECTION, entry |-> es] :
        es \in SeqsOf(ForeignEntries, 0, MaxEntries)}

InitBundle ==
    /\ output = NoneObj
    /\ warnings = 0
    /\ \/ /\ pc = "start"
          /\ input \in BundleInputs
          /\ doc = NoneObj
       \/ /\ pc = "bundled"
          /\ input = NoneObj
          /\ doc \in ForeignBundles

\* patient_bundle(patient, encounters, conditions, allergies)
PatientBundle ==
    /\ pc = "start"
    /\ doc' = patient_bundle(input.patient, input.encounters, input.conditions,
                             input.allergies)
    /\ pc' = "bundled"
    /\ UNCHANGED <<input, output, warnings>>

\* extract_tables(bundle)
ExtractTables ==
    /\ pc = "bundled"
    /\ output' = extract_tables(doc)
    /\ warnings' = extract_warnings(doc.entry)
    /\ pc' = "extracted"
    /\ UNCHANGED <<input, doc>>

\* to_flat(to_nested(r)) for the patient and for each child record, with no
\* bundle and no reference overrides
DirectRoundTrip ==
    /\ pc = "start"
    /\ LET E == OrEmpty(input.encounters)
           C == OrEmpty(input.conditions)
           A == OrEmpty(input.allergies)
       IN output' =
            [patients |-> <<patient_to_synthea(patient_to_fhir(input.patient))>>,
             encounters |->
                [i \in DOMAIN E |->
                    encounter_to_synthea(encounter_to_fhir(E[i], None, None,
                                                           None))],
             conditions |->
                [i \in DOMAIN C |->
                    condition_to_synthea(condition_to_fhir(C[i], None, None))],
             allergies |->
                [i \in DOMAIN A |-> allergy_to_synthea(allergy_to_fhir(A[i]))]]
    /\ pc' = "direct"
    /\ UNCHANGED <<input, doc, warnings>>

NextBundle == PatientBundle \/ ExtractTables \/ DirectRoundTrip

SpecBundle == InitBundle /\ [][NextBundle]_vars

\* every child record handed to patient_bundle names the parent patient
ChildrenBelongToParent ==
    /\ \A i \in DOMAIN OrEmpty(input.encounters) :
          OrEmpty(input.encounters)[i].patient = input.patient.id
    /\ \A i \in DOMAIN OrEmpty(input.conditions) :
          OrEmpty(input.conditions)[i].patient = input.patient.id
    /\ \A i \in DOMAIN OrEmpty(input.allergies) :
          OrEmpty(input.allergies)[i].patient = input.patient.id

\* the key fields of the flat input records are found again in the tables
KeyFieldsPreserved(tables) ==
    LET p == input.patient
        E == OrEmpty(input.encounters)
        C == OrEmpty(input.conditions)
        A == OrEmpty(input.allergies)
    IN /\ Len(tables.patients) = 1
       /\ tables.patients[1].id = p.id
       /\ tables.patients[1].first = p.first
       /\ tables.patients[1].last = p.last
       /\ tables.patients[1].gender = p.gender
       /\ Len(tables.encounters) = Len(E)
       /\ \A i \in DOMAIN E :
            /\ tables.encounters[i].id = E[i].id
            /\ tables.encounters[i].patient = E[i].patient
            /\ tables.encounters[i].code = E[i].code
       /\ Len(tables.conditions) = Len(C)
       /\ \A i \in DOMAIN C : tables.conditions[i].code = C[i].code
       /\ Len(tables.allergies) = Len(A)
       /\ \A i \in DOMAIN A :
            /\ tables.allergies[i].code = A[i].code
            /\ tables.allergies[i].description = A[i].description
            /\ tables.allergies[i].patient = A[i].patient

\* C1: for valid flat records, converting to nested and back keeps patient
\* id, first, last and gender, encounter id, patient and code, condition
\* code, and allergy code, description and patient, both for the direct
\* to_flat(to_nested(r)) and for extract_tables(patient_bundle(...)) when
\* the children belong to the parent patient.
C1_KeyFieldsRoundTrip ==
    /\ (pc = "direct") => KeyFieldsPreserved(output)
    /\ (pc = "extracted" /\ input # NoneObj /\ ChildrenBelongToParent)
          => KeyFieldsPreserved(output)

\* a bundle round trip of a female patient with a child of every kind
C1_Witness ==
    /\ pc = "extracted"
    /\ input # NoneObj
    /\ ChildrenBelongToParent
    /\ Len(OrEmpty(input.encounters)) >= 1
    /\ Len(OrEmpty(input.conditions)) >= 1
    /\ Len(OrEmpty(input.allergies)) >= 1
    /\ input.patient.gender = <<"F">>
    /\ output.patients[1].gender = <<"F">>
    /\ output.encounters[1].patient = <<"p1">>
    /\ output.allergies[1].description = <<"Peanut">>

\* the patient reference a child resource carries
PatientRefOf(resource) ==
    IF resource.resourceType = AllergyKind
    THEN resource.patient
    ELSE resource.subject

\* C3: in the collection returned by patient_bundle every child entry
\* (encounter, condition, allergy) carries the reference
\* 'Patient/<id of the converted parent>', whatever patient id the child's
\* own flat record holds.
C3_ChildrenCarryParentRef ==
    (pc = "bundled" /\ input # NoneObj) =>
        \A i \in 2..Len(doc.entry) :
            PatientRefOf(doc.entry[i].resource) =
                [reference |-> RefString(PatientKind, doc.entry[1].resource.id)]

\* C4: patient_bundle(p, E, C, A) has type 'collection' and exactly
\* 1 + |E| + |C| + |A| entries: the patient first, then the encounters,
\* the conditions and the allergies, each group in input order; an omitted
\* list counts as empty.
C4_BundleShape ==
    (pc = "bundled" /\ input # NoneObj) =>
        LET E == OrEmpty(input.encounters)
            C == OrEmpty(input.conditions)
            A == OrEmpty(input.allergies)
        IN /\ doc.type = COLLECTION
           /\ Len(doc.entry) = 1 + Len(E) + Len(C) + Len(A)
           /\ doc.entry[1].resource.resourceType = PatientKind
           /\ doc.entry[1].resource.id = input.patient.id
           /\ \A i \in DOMAIN E :
                /\ doc.entry[1 + i].resource.resourceType = EncounterKind
                /\ doc.entry[1 + i].resource.id = E[i].id
           /\ \A i \in DOMAIN C :
                /\ doc.entry[1 + Len(E) + i].resource.resourceType = ConditionKind
                /\ doc.entry[1 + Len(E) + i].resource.code.coding[1].code
                     = C[i].code
           /\ \A i \in DOMAIN A :
                /\ doc.entry[1 + Len(E) + Len(C) + i].resource.resourceType
                     = AllergyKind
                /\ doc.entry[1 + Len(E) + Len(C) + i].resource.code.coding[1].code
                     = A[i].code

\* two encounters in the order e2, e1, the conditions omitted, one allergy:
\* four entries
C4_Witness ==
    /\ pc = "bundled"
    /\ input # NoneObj
    /\ input.conditions = NoneObj
    /\ Len(OrEmpty(input.encounters)) = 2
    /\ OrEmpty(input.encounters)[1].id = <<"e2">>
    /\ OrEmpty(input.encounters)[2].id = <<"e1">>
    /\ Len(OrEmpty(input.allergies)) = 1
    /\ Len(doc.entry) = 4
    /\ doc.entry[2].resource.id = <<"e2">>
    /\ doc.entry[4].resource.resourceType = AllergyKind

\* the entries of a collection that carry a resource of the given kind
EntriesOfKind(entries, kind) ==
    SelectSeq(entries,
              LAMBDA e : e.resource # NoneObj /\ e.resource.resourceType = kind)

\* C5: extract_tables partitions a collection by declared kind: the i-th
\* Patient / Encounter / Condition / AllergyIntolerance entry is the i-th
\* row of 'patients' / 'encounters' / 'conditions' / 'allergies'; an entry
\* with no resource or of another kind adds no row; all four keys are
\* always present; and extract_tables(patient_bundle(p, E, C, A)) has
\* 1, |E|, |C| and |A| rows.
C5_ExtractPartition ==
    (pc = "extracted") =>
        LET P == EntriesOfKind(doc.entry, PatientKind)
            E == EntriesOfKind(doc.entry, EncounterKind)
            C == EntriesOfKind(doc.entry, ConditionKind)
            A == EntriesOfKind(doc.entry, AllergyKind)
        IN /\ DOMAIN output =
                {"patients", "encounters", "conditions", "allergies"}
           /\ Len(output.patients) = Len(P)
           /\ \A i \in DOMAIN P :
                output.patients[i] = patient_to_synthea(P[i].resource)
           /\ Len(output.encounters) = Len(E)
           /\ \A i \in DOMAIN E :
                output.encounters[i] = encounter_to_synthea(E[i].resource)
           /\ Len(output.conditions) = Len(C)
           /\ \A i \in DOMAIN C :
                output.conditions[i] = condition_to_synthea(C[i].resource)
           /\ Len(output.allergies) = Len(A)
           /\ \A i \in DOMAIN A :
                output.allergies[i] = allergy_to_synthea(A[i].resource)
           /\ (input # NoneObj) =>
                /\ Len(output.patients) = 1
                /\ Len(output.encounters) = Len(OrEmpty(input.encounters))
                /\ Len(output.conditions) = Len(OrEmpty(input.conditions))
                /\ Len(output.allergies) = Len(OrEmpty(input.allergies))

\* a collection holding an entry without resource, an Organization and an
\* encounter yields one encounter row and nothing else
C5_Witness ==
    /\ pc = "extracted"
    /\ input = NoneObj
    /\ Len(doc.entry) = 3
    /\ doc.entry[1] = EmptyEntry
    /\ doc.entry[2].resource = OrganizationResource
    /\ doc.entry[3].resource # NoneObj
    /\ doc.entry[3].resource.resourceType = EncounterKind
    /\ Len(output.encounters) = 1
    /\ output.patients = <<>>
    /\ output.conditions = <<>>
    /\ output.allergies = <<>>

\* --- patient conversions as a state machine -----------------------------

FlatPatients ==
    [id : {<<"p1">>},
     birthdate : {<<"1990-01-01">>, <<"2020-01-15", "T", "10:30:00", "Z">>},
     prefix : {None, <<"Dr.">>},
     first : {<<"Jane">>},
     last : {<<"Doe">>},
     suffix : {None},
     maiden : {None, <<"Roe">>},
     gender : {None, <<"M">>, <<"F">>},
     address : {<<"1 Main St">>},
     city : {None, <<"Springfield">>}]

\* one name entry of a nested patient
NameEntry(use, given, family) ==
    [use |-> use, prefix |-> <<>>, given |-> given, family |-> family,
     suffix |-> <<>>]

NameEntries ==
    {NameEntry(<<"official">>, <<<<"Jane">>, <<"Q">>>>, <<"Doe">>),
     NameEntry(<<"maiden">>, <<>>, <<"Roe">>),
     NameEntry(<<"nickname">>, <<<<"JJ">>>>, None)}

\* longest name list of a nested patient
MaxNames == 3

NestedPatients ==
    {[resourceType |-> PatientKind,
      id |-> <<"p1">>,
      birthDate |-> <<"1990-01-01">>,
      identifier |-> <<>>,
      name |-> names,
      gender |-> g,
      address |-> <<>>] :
        names \in SeqsOf(NameEntries, 0, MaxNames),
        g \in {None, <<"male">>, <<"female">>, <<"other">>, <<"Male">>}}

InitPatient ==
    /\ output = NoneObj
    /\ warnings = 0
    /\ \/ /\ pc = "start"
          /\ input \in FlatPatients
          /\ doc = NoneObj
       \/ /\ pc = "nested"
          /\ input = NoneObj
          /\ doc \in NestedPatients

\* to_nested on a flat patient
PatientToFhir ==
    /\ pc = "start"
    /\ doc' = patient_to_fhir(input)
    /\ pc' = "nested"
    /\ UNCHANGED <<input, output, warnings>>

\* to_flat on a nested patient
PatientToSynthea ==
    /\ pc = "nested"
    /\ output' = patient_to_synthea(doc)
    /\ warnings' = patient_to_synthea_warnings(doc)
    /\ pc' = "flat"
    /\ UNCHANGED <<input, doc>>

NextPatient == PatientToFhir \/ PatientToSynthea

SpecPatient == InitPatient /\ [][NextPatient]_vars

\* C11: a flat patient with no gender converts to a nested patient whose
\* gender field is set to the fallback value, and converting that nested
\* patient back yields the flat code of that same fallback.
C11_GenderFallback ==
    (pc \in {"nested", "flat"} /\ input # NoneObj /\ input.gender = None) =>
        /\ doc.gender # None
        /\ (pc = "flat") => map_gender(output.gender) = doc.gender

\* C12: to_nested on a flat patient yields the nested id equal to the flat
\* id, gender 'female' for 'F' and 'male' for 'M', an official name entry
\* whose family is the flat last name and whose given list is exactly
\* [first], and a birthDate equal to the date of the flat birthdate in
\* YYYY-MM-DD form.
C12_PatientToNested ==
    (pc = "nested" /\ input # NoneObj) =>
        /\ doc.id = input.id
        /\ (input.gender = <<"F">>) => doc.gender = <<"female">>
        /\ (input.gender = <<"M">>) => doc.gender = <<"male">>
        /\ \E i \in DOMAIN doc.name :
              /\ doc.name[i].use = <<"official">>
              /\ doc.name[i].family = input.last
              /\ doc.name[i].given = <<input.first>>
        /\ doc.birthDate = <<input.birthdate[1]>>
        /\ doc.birthDate[1] \in ValidDates

\* the scenario of the documentation: F, Jane Doe, born 1990-01-01
C12_Witness ==
    /\ pc = "nested"
    /\ input # NoneObj
    /\ input.gender = <<"F">>
    /\ input.birthdate = <<"1990-01-01">>
    /\ doc.gender = <<"female">>
    /\ doc.name[1].family = <<"Doe">>
    /\ doc.name[1].given = <<<<"Jane">>>>
    /\ doc.birthDate = <<"1990-01-01">>

\* ---------------------------------------------------------------------
\* The references each to_nested writes.  For the converters that are not
\* modelled in full, the definitions below are the reference-building
\* statements of the converter.  A slot records the flat field a reference
\* is built from (role, id), the override the caller passed for it (None
\* when there is none; overridable tells whether the converter has such a
\* parameter) and the reference object written to the resource.
\* ---------------------------------------------------------------------

PractitionerKind == <<"Practitioner">>

CoverageKind == <<"Coverage">>

ClaimKind == <<"Claim">>

Slot(role, overridable, id, override, reference) ==
    [role |-> role, overridable |-> overridable, id |-> id,
     override |-> override, reference |-> reference]

\* to_fhir.encounter.convert: subject, serviceProvider, participant, payer
encounter_references(d, patient_ref, provider_ref, organization_ref) ==
    LET r == encounter_to_fhir(d, patient_ref, provider_ref, organization_ref)
    IN <<Slot("patient", TRUE, d.patient, patient_ref, r.subject),
         Slot("organization", TRUE, d.organization, organization_ref,
              r.serviceProvider),
         Slot("provider", TRUE, d.provider, provider_ref,
              IF r.participant # <<>> THEN r.participant[1].actor
              ELSE NoneObj),
         Slot("payer", FALSE, d.payer, None, r.payer)>>

\* to_fhir.condition.convert: subject, encounter
condition_references(d, patient_ref, encounter_ref) ==
    LET r == condition_to_fhir(d, patient_ref, encounter_ref)
    IN <<Slot("patient", TRUE, d.patient, patient_ref, r.subject),
         Slot("encounter", TRUE, d.encounter, encounter_ref, r.encounter)>>

\* to_fhir.procedure._to_fhir_procedure: the effective reference is cut at
\* its last "/" and rebuilt under the fixed kind
procedure_references(d, patient_ref, encounter_ref) ==
    LET eff_patient_ref ==
            IF Truthy(patient_ref) THEN patient_ref
            ELSE IF Truthy(d.patient) THEN RefString(PatientKind, d.patient)
            ELSE None
        eff_encounter_ref ==
            IF Truthy(encounter_ref) THEN encounter_ref
            ELSE IF Truthy(d.encounter)
                 THEN RefString(EncounterKind, d.encounter)
            ELSE None
    IN <<Slot("patient", TRUE, d.patient, patient_ref,
              ref(PatientKind, IF Truthy(eff_patient_ref)
                               THEN SplitLast(eff_patient_ref, SLASH)
                               ELSE None)),
         Slot("encounter", TRUE, d.encounter, encounter_ref,
              ref(EncounterKind, IF Truthy(eff_encounter_ref)
                                 THEN SplitLast(eff_encounter_ref, SLASH)
                                 ELSE None))>>

\* to_fhir.immunization.convert, to_fhir.careplan.convert and
\* to_fhir.observation.convert: patient / subject and encounter
patient_encounter_references(d, patient_ref, encounter_ref) ==
    <<Slot("patient", TRUE, d.patient, patient_ref,
           EffectiveRef(patient_ref, PatientKind, to_str(d.patient))),
      Slot("encounter", TRUE, d.encounter, encounter_ref,
           EffectiveRef(encounter_ref, EncounterKind, to_str(d.encounter)))>>

\* to_fhir.medication.convert: subject, encounter and the insurance entry
\* built from the payer id
medication_references(d, patient_ref, encounter_ref) ==
    patient_encounter_references(d, patient_ref, encounter_ref)
    \o <<Slot("payer", FALSE, d.payer, None,
              IF Truthy(to_str(d.payer))
              THEN [reference |-> RefString(CoverageKind, to_str(d.payer))]
              ELSE NoneObj)>>

\* to_fhir.supply._to_fhir_supply and to_fhir.device._to_fhir_device: the
\* patient reference (with override) and the encounter extension
patient_override_references(d, patient_ref) ==
    <<Slot("patient", TRUE, d.patient, patient_ref,
           EffectiveRef(patient_ref, PatientKind, d.patient)),
      Slot("encounter", FALSE, d.encounter, None,
           IF Truthy(d.encounter)
           THEN [reference |-> RefString(EncounterKind, d.encounter)]
           ELSE NoneObj)>>

\* to_fhir.payer_transitions.convert: beneficiary, subscriber, insurer and
\* the secondary-payer extension
coverage_references(d, patient_ref) ==
    LET effective_patient_ref ==
            EffectiveRef(patient_ref, PatientKind, to_str(d.patient))
    IN <<Slot("patient", TRUE, d.patient, patient_ref, effective_patient_ref),
         Slot("patient", TRUE, d.patient, patient_ref, effective_patient_ref),
         Slot("payer", FALSE, d.payer, None,
              IF Truthy(to_str(d.payer))
              THEN [reference |-> RefString(OrganizationKind, to_str(d.payer))]
              ELSE NoneObj),
         Slot("payer", FALSE, d.secondary_payer, None,
              IF Truthy(to_str(d.secondary_payer))
              THEN [reference |->
                       RefString(OrganizationKind, to_str(d.secondary_payer))]
              ELSE NoneObj)>>

\* to_fhir.imaging_study._to_fhir_imaging_study: subject and encounter
imaging_study_references(d) ==
    <<Slot("patient", FALSE, d.patient, None, ref(PatientKind, d.patient)),
      Slot("encounter", FALSE, d.encounter, None,
           ref(EncounterKind, d.encounter))>>

\* to_fhir.allergy.convert: patient and encounter
allergy_references(d) ==
    <<Slot("patient", FALSE, d.patient, None,
           IF Truthy(to_str(d.patient))
           THEN create_reference(PatientKind, to_str(d.patient))
           ELSE NoneObj),
      Slot("encounter", FALSE, d.encounter, None,
           IF Truthy(to_str(d.encounter))
           THEN create_reference(EncounterKind, to_str(d.encounter))
           ELSE NoneObj)>>

\* to_fhir.claims_transactions.convert_response: request and patient (the
\* insurance entry refers to a coverage id)
claim_response_references(d) ==
    <<Slot("claim", FALSE, d.claimid, None,
           IF Truthy(to_str(d.claimid))
           THEN create_reference(ClaimKind, to_str(d.claimid))
           ELSE NoneObj),
      Slot("patient", FALSE, d.patientid, None,
           IF Truthy(to_str(d.patientid))
           THEN create_reference(PatientKind, to_str(d.patientid))
           ELSE NoneObj)>>

\* to_fhir.claims_transactions.convert: patient, provider, facility,
\* supervising provider and the item's encounter
claim_transaction_references(d) ==
    <<Slot("patient", FALSE, d.patientid, None,
           IF Truthy(to_str(d.patientid))
           THEN create_reference(PatientKind, to_str(d.patientid))
           ELSE NoneObj),
      Slot("provider", FALSE, d.providerid, None,
           IF Truthy(to_str(d.providerid))
           THEN create_reference(PractitionerKind, to_str(d.providerid))
           ELSE NoneObj),
      Slot("organization", FALSE, d.placeofservice, None,
           IF Truthy(to_str(d.placeofservice))
           THEN create_reference(OrganizationKind, to_str(d.placeofservice))
           ELSE NoneObj),
      Slot("provider", FALSE, d.supervisingproviderid, None,
           IF Truthy(to_str(d.supervisingproviderid))
           THEN create_reference(PractitionerKind,
                                 to_str(d.supervisingproviderid))
           ELSE NoneObj),
      Slot("encounter", FALSE, d.appointmentid, None,
           IF Truthy(to_str(d.appointmentid))
           THEN create_reference(EncounterKind, to_str(d.appointmentid))
           ELSE NoneObj)>>

\* --- reference wiring as a state machine --------------------------------

\* flat records as far as their ids go; the remaining fields are fixed
WireRecords ==
    [id : {<<"r1">>},
     start : {<<"2020-01-01">>},
     stop : {None},
     patient : {None, <<"p1">>},
     encounter : {None, <<"e1">>},
     organization : {None, <<"o1">>},
     provider : {None, <<"d1">>},
     payer : {None, <<"y1">>},
     secondary_payer : {None, <<"y2">>},
     encounterclass : {AMBULATORY},
     code : {<<"185345009">>},
     description : {<<"Encounter for symptom">>},
     reasoncode : {None},
     reasondescription : {None}]

WireTransactions ==
    [claimid : {None, <<"c1">>},
     patientid : {None, <<"p1">>},
     providerid : {None, <<"d1">>},
     placeofservice : {None, <<"o1">>},
     supervisingproviderid : {None, <<"d2">>},
     appointmentid : {None, <<"e1">>}]

PatientOverrides ==
    {None, RefString(PatientKind, <<"custom-123">>), <<"urn:uuid:abc">>}

EncounterOverrides == {None, RefString(EncounterKind, <<"enc-456">>)}

ProviderOverrides == {None, RefString(PractitionerKind, <<"doc-7">>)}

OrganizationOverrides == {None, RefString(OrganizationKind, <<"org-9">>)}

\* a call of one converter: which one, the flat record, the overrides
WireCall(conv, src, patient_ref, encounter_ref, provider_ref,
         organization_ref) ==
    [conv |-> conv, src |-> src, patient_ref |-> patient_ref,
     encounter_ref |-> encounter_ref, provider_ref |-> provider_ref,
     organization_ref |-> organization_ref]

WireCalls ==
    {WireCall("encounter", s, p, None, v, o) :
        s \in WireRecords, p \in PatientOverrides, v \in ProviderOverrides,
        o \in OrganizationOverrides}
    \cup
    {WireCall(c, s, p, e, None, None) :
        c \in {"condition", "procedure", "immunization", "careplan",
               "observation", "medication"},
        s \in WireRecords, p \in PatientOverrides, e \in EncounterOverrides}
    \cup
    {WireCall(c, s, p, None, None, None) :
        c \in {"supply", "device", "coverage"},
        s \in WireRecords, p \in PatientOverrides}
    \cup
    {WireCall(c, s, None, None, None, None) :
        c \in {"imaging_study", "allergy"}, s \in WireRecords}
    \cup
    {WireCall(c, s, None, None, None, None) :
        c \in {"claim_transaction", "claim_response"},
        s \in WireTransactions}

InitWire ==
    /\ pc = "start"
    /\ input \in WireCalls
    /\ doc = NoneObj
    /\ output = NoneObj
    /\ warnings = 0

\* the shared frame of the converter actions below
Wired(conv, slots) ==
    /\ pc = "start"
    /\ input.conv \in conv
    /\ doc' = slots
    /\ pc' = "wired"
    /\ UNCHANGED <<input, output, warnings>>

ConvertEncounter ==
    Wired({"encounter"},
          encounter_references(input.src, input.patient_ref,
                               input.provider_ref, input.organization_ref))

ConvertCondition ==
    Wired({"condition"},
          condition_references(input.src, input.patient_ref,
                               input.encounter_ref))

ConvertProcedure ==
    Wired({"procedure"},
          procedure_references(input.src, input.patient_ref,
                               input.encounter_ref))

\* immunization, careplan and observation
ConvertPatientEncounter ==
    Wired({"immunization", "careplan", "observation"},
          patient_encounter_references(input.src, input.patient_ref,
                                       input.encounter_ref))

ConvertMedication ==
    Wired({"medication"},
          medication_references(input.src, input.patient_ref,
                                input.encounter_ref))

\* supply and device
ConvertSupplyDevice ==
    Wired({"supply", "device"},
          patient_override_references(input.src, input.patient_ref))

ConvertPayerTransition ==
    Wired({"coverage"}, coverage_references(input.src, input.patient_ref))

ConvertImagingStudy ==
    Wired({"imaging_study"}, imaging_study_references(input.src))

ConvertAllergy == Wired({"allergy"}, allergy_references(input.src))

ConvertClaimTransaction ==
    Wired({"claim_transaction"}, claim_transaction_references(input.src))

ConvertClaimResponse ==
    Wired({"claim_response"}, claim_response_references(input.src))

NextWire ==
    \/ ConvertEncounter
    \/ ConvertCondition
    \/ ConvertProcedure
    \/ ConvertPatientEncounter
    \/ ConvertMedication
    \/ ConvertSupplyDevice
    \/ ConvertPayerTransition
    \/ ConvertImagingStudy
    \/ ConvertAllergy
    \/ ConvertClaimTransaction
    \/ ConvertClaimResponse

SpecWire == InitWire /\ [][NextWire]_vars

\* the nested kind the flat record behind a reference converts to
KindOfRole(role) ==
    CASE role = "patient" -> PatientKind
      [] role = "encounter" -> EncounterKind
      [] role = "organization" -> OrganizationKind
      [] role = "payer" -> OrganizationKind
      [] role = "provider" -> PractitionerKind
      [] role = "claim" -> ClaimKind

\* C13: for every to_nested that accepts a reference override, a supplied
\* override appears verbatim as the corresponding reference of the output;
\* with no override the reference is '<Kind>/<id of the flat record>'.
C13_OverrideVerbatim ==
    (pc = "wired") =>
        \A i \in DOMAIN doc :
            doc[i].overridable =>
                doc[i].reference =
                    (IF Truthy(doc[i].override)
                     THEN [reference |-> doc[i].override]
                     ELSE IF Truthy(doc[i].id)
                          THEN [reference |->
                                   RefString(KindOfRole(doc[i].role), doc[i].id)]
                          ELSE NoneObj)

\* C14: every reference a to_nested builds from a flat id is '<Kind>/<id>'
\* with Kind the nested kind the referenced flat record converts to:
\* Patient, Encounter, Organization (organizations and payers),
\* Practitioner, Claim.
C14_ReferenceKinds ==
    (pc = "wired") =>
        \A i \in DOMAIN doc :
            (~Truthy(doc[i].override) /\ Truthy(doc[i].id)) =>
                doc[i].reference =
                    [reference |-> RefString(KindOfRole(doc[i].role), doc[i].id)]

(***************************************************************************)
(* Claim transactions: ClaimTransaction <-> ClaimResponse / Claim          *)
(*                                                                         *)
(* A money amount is a decimal number; the text that stands for it is its  *)
(* canonical numeral, so float(x) and Decimal(str(x)) keep it.             *)
(***************************************************************************)
\* longest item list of a nested claim or claim response
MaxItems == 2

TRANSACTION_TYPE_SYSTEM ==
    <<"http://synthea.tools/CodeSystem/claims-transaction-type">>

ADJUDICATION_SYSTEM == <<"http://terminology.hl7.org/CodeSystem/adjudication">>

PAYMENT_METHOD_SYSTEM == <<"http://synthea.tools/CodeSystem/payment-method">>

CLAIM_TYPE_SYSTEM == <<"http://terminology.hl7.org/CodeSystem/claim-type">>

PAYMENT == <<"PAYMENT">>

ADJUSTMENT == <<"ADJUSTMENT">>

TRANSFERIN == <<"TRANSFERIN">>

TRANSFEROUT == <<"TRANSFEROUT">>

CHARGE == <<"CHARGE">>

TransactionTypes == {PAYMENT, ADJUSTMENT, TRANSFERIN, TRANSFEROUT, CHARGE}

\* {"category": {"coding": [coding]}, "amount": ..., "reason": ...}
Adjudication(system, code, amount, reason) ==
    [category |-> [coding |-> <<[system |-> system, code |-> code]>>],
     amount |-> amount, reason |-> reason]

\* "; ".join(parts) for a list of at most two parts
JoinReasons(parts) ==
    IF parts = <<>> THEN <<>>
    ELSE IF Len(parts) = 1 THEN parts[1]
    ELSE parts[1] \o <<";", SP>> \o parts[2]

\* to_fhir.claims_transactions.convert_response: the adjudication list of
\* the single item
response_adjudications(transaction_type, payments, adjustments, transfers, transfer_out_id, transfer_type) ==
    LET payment_part ==
            IF transaction_type = PAYMENT /\ payments # None
            THEN <<Adjudication(TRANSACTION_TYPE_SYSTEM, transaction_type,
                                [value |-> payments, currency |-> <<"USD">>],
                                None)>>
            ELSE <<>>
        adjustment_part ==
            IF transaction_type = ADJUSTMENT /\ adjustments # None
            THEN <<Adjudication(TRANSACTION_TYPE_SYSTEM, <<"adjustment">>,
                                [value |-> adjustments, currency |-> <<"USD">>],
                                None)>>
            ELSE <<>>
        transfer_reasons ==
            (IF Truthy(transfer_out_id)
             THEN <<(<<"Transfer Out ID:", SP>> \o transfer_out_id)>>
             ELSE <<>>)
            \o (IF Truthy(transfer_type)
                THEN <<(<<"Transfer Type:", SP>> \o transfer_type)>>
                ELSE <<>>)
        transfer_part ==
            IF transaction_type \in {TRANSFERIN, TRANSFEROUT} /\ transfers # None
            THEN <<Adjudication(TRANSACTION_TYPE_SYSTEM, <<"transfer">>,
                                [value |-> transfers, currency |-> <<"USD">>],
                                IF transfer_reasons # <<>>
                                THEN JoinReasons(transfer_reasons)
                                ELSE None)>>
            ELSE <<>>
        charge_part ==
            IF transaction_type = CHARGE
            THEN <<Adjudication(TRANSACTION_TYPE_SYSTEM, transaction_type,
                                NoneObj, None)>>
            ELSE <<>>
        typed ==
            IF Truthy(transaction_type)
            THEN payment_part \o adjustment_part \o transfer_part \o charge_part
            ELSE <<>>
    IN IF typed = <<>>
       THEN <<Adjudication(ADJUDICATION_SYSTEM, <<"submitted">>, NoneObj, None)>>
       ELSE typed

\* to_fhir.claims_transactions.convert_response
claim_response_to_fhir(d) ==
    LET transaction_id == to_str(d.id)
        claim_id == to_str(d.claimid)
        patient_id == to_str(d.patientid)
        patient_insurance_id == to_str(d.patientinsuranceid)
        transaction_type == to_str(d.type)
        method == to_str(d.method)
        to_date == to_str(d.todate)
        transfer_out_id == to_str(d.transferoutid)
        transfer_type == to_str(d.transfertype)
    IN [resourceType |-> <<"ClaimResponse">>,
        status |-> <<"active">>,
        use |-> <<"claim">>,
        type |-> [coding |-> <<[system |-> CLAIM_TYPE_SYSTEM,
                                code |-> <<"professional">>]>>],
        outcome |-> <<"complete">>,
        id |-> OrNone(transaction_id),
        request |-> IF Truthy(claim_id)
                    THEN create_reference(ClaimKind, claim_id) ELSE NoneObj,
        patient |-> IF Truthy(patient_id)
                    THEN create_reference(PatientKind, patient_id) ELSE NoneObj,
        insurer |-> [display |-> <<"Unknown Insurer">>],
        insurance |-> IF Truthy(patient_insurance_id)
                      THEN <<[sequence |-> 1, focal |-> TRUE,
                              coverage |-> create_reference(CoverageKind,
                                                            patient_insurance_id)]>>
                      ELSE <<>>,
        item |-> IF d.chargeid # None
                 THEN <<[itemSequence |-> d.chargeid,
                         adjudication |->
                             response_adjudications(transaction_type, d.payments,
                                                    d.adjustments, d.transfers,
                                                    transfer_out_id, transfer_type),
                         note |-> IF d.outstanding # None
                                  THEN <<[text |-> <<"Outstanding:", SP>>
                                                   \o d.outstanding]>>
                                  ELSE <<>>]>>
                 ELSE <<>>,
        payment |-> IF d.payments # None /\ transaction_type = PAYMENT
                    THEN [amount |-> [value |-> d.payments, currency |-> <<"USD">>],
                          type |-> IF Truthy(method)
                                   THEN [coding |-> <<[system |-> PAYMENT_METHOD_SYSTEM,
                                                       code |-> method]>>,
                                         text |-> None]
                                   ELSE NoneObj,
                          date |-> IF Truthy(to_date)
                                   THEN format_datetime(to_date) ELSE None]
                    ELSE NoneObj]

\* s.split(c): the list of the parts of s between occurrences of c
RECURSIVE Split(_, _)
Split(s, c) ==
    IF Contains(s, c)
    THEN LET i == CHOOSE j \in 1..Len(s) : s[j] = c /\ \A k \in 1..(j - 1) : s[k] # c
         IN <<SubSeq(s, 1, i - 1)>> \o Split(SubSeq(s, i + 1, Len(s)), c)
    ELSE <<s>>

\* part.replace(label, "").strip()
AfterLabel(part, label) == Strip(SelectSeq(part, LAMBDA c : c # label))

\* the numerals that Decimal() accepts among the texts of the model
Numerals == {"0", "10", "25", "40"}

IsDecimal(s) == Len(s) = 1 /\ s[1] \in Numerals

\* a ClaimTransaction with every field None
EmptyTransaction ==
    [id |-> None, claimid |-> None, chargeid |-> None, patientid |-> None,
     type |-> None, amount |-> None, method |-> None, fromdate |-> None,
     todate |-> None, placeofservice |-> None, procedurecode |-> None,
     modifier1 |-> None, modifier2 |-> None, diagnosisref1 |-> None,
     diagnosisref2 |-> None, diagnosisref3 |-> None, diagnosisref4 |-> None,
     units |-> None, departmentid |-> None, notes |-> None,
     unitamount |-> None, transferoutid |-> None, transfertype |-> None,
     payments |-> None, adjustments |-> None, transfers |-> None,
     outstanding |-> None, appointmentid |-> None, linenote |-> None,
     patientinsuranceid |-> None, feescheduleid |-> None, providerid |-> None,
     supervisingproviderid |-> None]

\* Decimal(str(adj["amount"].get("value", 0)))
AdjudicationAmount(adj) ==
    IF adj.amount.value = None THEN <<"0">> ELSE adj.amount.value

\* the state of the adjudication scan before the first adjudication
AdjudicationStart ==
    [transaction_type |-> <<>>, amount_value |-> None, transfers_value |-> None,
     transfer_out_id |-> <<>>, transfer_type |-> <<>>]

PaymentCodes == {<<"PAYMENT">>, <<"payment">>}

AdjustmentCodes == {<<"ADJUSTMENT">>, <<"adjustment">>}

TransferCodes == {<<"TRANSFERIN">>, <<"TRANSFEROUT">>, <<"transfer">>}

\* "IN" in code, on the upper-cased transfer codes: of TRANSFERIN,
\* TRANSFEROUT and TRANSFER only the first contains the letters IN
HasIN(code) == code = TRANSFERIN

\* the transfer id and type read from the parts of a reason text, the last
\* part that carries a label winning
RECURSIVE ReasonParts(_, _)
ReasonParts(parts, acc) ==
    IF parts = <<>> THEN acc
    ELSE LET part == Head(parts)
         IN ReasonParts(Tail(parts),
                IF Contains(part, "Transfer Out ID:")
                THEN [acc EXCEPT !.transfer_out_id =
                                     AfterLabel(part, "Transfer Out ID:")]
                ELSE IF Contains(part, "Transfer Type:")
                THEN [acc EXCEPT !.transfer_type =
                                     AfterLabel(part, "Transfer Type:")]
                ELSE acc)

\* to_synthea.claims_transactions.convert_response: the body of the loop
\* "for adj in adjudications" on one adjudication; the inner loop stops at
\* the first coding with a known code
scan_adjudication(st, adj) ==
    LET codings == adj.category.coding
        known == {i \in DOMAIN codings :
                    codings[i].code \in PaymentCodes \cup AdjustmentCodes
                                         \cup TransferCodes}
    IN IF known = {} THEN st
       ELSE LET i == CHOOSE j \in known : \A k \in known : j <= k
                code == codings[i].code
                has_amount == adj.amount # NoneObj
            IN CASE code \in PaymentCodes ->
                      [st EXCEPT !.transaction_type = PAYMENT,
                                 !.amount_value =
                                     IF has_amount THEN AdjudicationAmount(adj)
                                     ELSE @]
                 [] code \in AdjustmentCodes ->
                      [st EXCEPT !.transaction_type = ADJUSTMENT,
                                 !.amount_value =
                                     IF has_amount THEN AdjudicationAmount(adj)
                                     ELSE @]
                 [] OTHER ->
                      LET moved ==
                              [st EXCEPT !.transaction_type =
                                             IF HasIN(Upper(code))
                                             THEN TRANSFERIN ELSE TRANSFEROUT,
                                         !.transfers_value =
                                             IF has_amount
                                             THEN AdjudicationAmount(adj)
                                             ELSE @]
                      IN IF Truthy(adj.reason)
                         THEN ReasonParts(Split(adj.reason, ";"), moved)
                         ELSE moved

RECURSIVE scan_adjudications(_, _)
scan_adjudications(st, adjudications) ==
    IF adjudications = <<>> THEN st
    ELSE scan_adjudications(scan_adjudication(st, Head(adjudications)),
                            Tail(adjudications))

\* the outstanding amount in the notes of an item: the last note that
\* carries the label and a decimal number
RECURSIVE outstanding_of(_, _)
outstanding_of(notes, acc) ==
    IF notes = <<>> THEN acc
    ELSE LET note_text == GetStr(Head(notes).text)
             value == AfterLabel(note_text, "Outstanding:")
         IN outstanding_of(Tail(notes),
                IF Contains(note_text, "Outstanding:") /\ IsDecimal(value)
                THEN value ELSE acc)

\* payment.type -> the payment method
payment_method_of(payment) ==
    IF payment = NoneObj \/ payment.type = NoneObj THEN <<>>
    ELSE IF payment.type.coding # <<>>
         THEN GetStr(payment.type.coding[1].code)
         ELSE IF Truthy(payment.type.text) THEN payment.type.text ELSE <<>>

\* to_synthea.claims_transactions.convert_response: the row of one item
response_row(fhir, item) ==
    LET transaction_id == GetStr(fhir.id)
        claim_id == extract_reference_id(fhir.request)
        patient_id == extract_reference_id(fhir.patient)
        payment_amount ==
            IF fhir.payment = NoneObj \/ fhir.payment.amount = NoneObj
            THEN None ELSE fhir.payment.amount.value
        payment_method == payment_method_of(fhir.payment)
        payment_date ==
            IF fhir.payment # NoneObj /\ Truthy(fhir.payment.date)
            THEN parse_datetime_to_date(fhir.payment.date) ELSE None
        scanned == scan_adjudications(AdjudicationStart, item.adjudication)
        by_payment == payment_amount # None /\ ~Truthy(scanned.transaction_type)
        transaction_type ==
            IF by_payment THEN PAYMENT ELSE scanned.transaction_type
        amount_value ==
            IF by_payment THEN payment_amount ELSE scanned.amount_value
    IN [EmptyTransaction EXCEPT
            !.id = OrNone(transaction_id),
            !.claimid = OrNone(claim_id),
            !.chargeid = item.itemSequence,
            !.patientid = OrNone(patient_id),
            !.type = OrNone(transaction_type),
            !.amount = amount_value,
            !.method = OrNone(payment_method),
            !.fromdate = payment_date,
            !.todate = payment_date,
            !.transferoutid = OrNone(scanned.transfer_out_id),
            !.transfertype = OrNone(scanned.transfer_type),
            !.payments = IF transaction_type = PAYMENT /\ payment_amount # None
                         THEN payment_amount ELSE None,
            !.adjustments = IF transaction_type = ADJUSTMENT
                            THEN amount_value ELSE None,
            !.transfers = IF transaction_type \in {TRANSFERIN, TRANSFEROUT}
                          THEN scanned.transfers_value ELSE None,
            !.outstanding = outstanding_of(item.note, None)]

\* to_synthea.claims_transactions.convert_response
claim_response_to_synthea(fhir) ==
    LET rows == [k \in DOMAIN fhir.item |-> response_row(fhir, fhir.item[k])]
        payment_amount ==
            IF fhir.payment = NoneObj \/ fhir.payment.amount = NoneObj
            THEN None ELSE fhir.payment.amount.value
        payment_date ==
            IF fhir.payment # NoneObj /\ Truthy(fhir.payment.date)
            THEN parse_datetime_to_date(fhir.payment.date) ELSE None
    IN IF rows = <<>> /\ payment_amount # None
       THEN <<[EmptyTransaction EXCEPT
                   !.id = OrNone(GetStr(fhir.id)),
                   !.claimid = OrNone(extract_reference_id(fhir.request)),
                   !.patientid = OrNone(extract_reference_id(fhir.patient)),
                   !.type = PAYMENT,
                   !.method = OrNone(payment_method_of(fhir.payment)),
                   !.fromdate = payment_date,
                   !.todate = payment_date,
                   !.payments = payment_amount]>>
       ELSE rows

\* "; ".join of the non-empty note texts
RECURSIVE JoinNotes(_)
JoinNotes(notes) ==
    IF notes = <<>> THEN <<>>
    ELSE IF ~Truthy(Head(notes).text) THEN JoinNotes(Tail(notes))
    ELSE LET rest == JoinNotes(Tail(notes))
         IN IF rest = <<>> THEN Head(notes).text
            ELSE Head(notes).text \o <<";", SP>> \o rest

\* the provider of the first care team member whose role text is
\* "supervising" and who has a provider
RECURSIVE supervising_provider(_)
supervising_provider(care_team) ==
    IF care_team = <<>> THEN <<>>
    ELSE LET member == Head(care_team)
         IN IF member.role # NoneObj /\ member.role.text = <<"supervising">>
               /\ member.provider # NoneObj
            THEN extract_reference_id(member.provider)
            ELSE supervising_provider(Tail(care_team))

\* the department or fee schedule id in the notes of an item: the last note
\* that carries the label (a department note is never read as a fee note)
RECURSIVE labelled_note(_, _, _)
labelled_note(notes, label, acc) ==
    IF notes = <<>> THEN acc
    ELSE LET note_text == GetStr(Head(notes).text)
             hit == Contains(note_text, label)
                    /\ (label = "Fee Schedule ID:" =>
                            ~Contains(note_text, "Department ID:"))
         IN labelled_note(Tail(notes), label,
                          IF hit THEN AfterLabel(note_text, label) ELSE acc)

\* Decimal(str(m.get("value"))) if the value is not None
MoneyValue(m) == IF m = NoneObj THEN None ELSE m.value

\* to_synthea.claims_transactions.convert: the row of one item
charge_row(fhir, item) ==
    LET claim_id == GetStr(fhir.id)
        place_of_service == extract_reference_id(fhir.facility)
        codings == IF item.productOrService = NoneObj THEN <<>>
                   ELSE item.productOrService.coding
        procedure_code == IF codings # <<>> THEN GetStr(codings[1].code) ELSE <<>>
        line_note == IF codings # <<>> /\ Truthy(codings[1].display)
                     THEN codings[1].display ELSE <<>>
        modifier(n) == IF Len(item.modifier) >= n
                       THEN GetStr(item.modifier[n].code) ELSE <<>>
        diagnosisref(n) == IF Len(item.diagnosisSequence) >= n
                           THEN item.diagnosisSequence[n] ELSE None
        from_date == IF fhir.billablePeriod # NoneObj
                        /\ Truthy(fhir.billablePeriod.start)
                     THEN parse_datetime_to_date(fhir.billablePeriod.start)
                     ELSE None
        to_date == IF fhir.billablePeriod # NoneObj
                      /\ Truthy(fhir.billablePeriod["end"])
                   THEN parse_datetime_to_date(fhir.billablePeriod["end"])
                   ELSE None
    IN [EmptyTransaction EXCEPT
            !.id = <<"txn-">> \o claim_id \o <<"-">> \o item.sequence,
            !.claimid = OrNone(claim_id),
            !.chargeid = item.sequence,
            !.patientid = OrNone(extract_reference_id(fhir.patient)),
            !.type = CHARGE,
            !.amount = MoneyValue(item.net),
            !.fromdate = from_date,
            !.todate = to_date,
            !.placeofservice = OrNone(place_of_service),
            !.procedurecode = OrNone(procedure_code),
            !.modifier1 = OrNone(modifier(1)),
            !.modifier2 = OrNone(modifier(2)),
            !.diagnosisref1 = diagnosisref(1),
            !.diagnosisref2 = diagnosisref(2),
            !.diagnosisref3 = diagnosisref(3),
            !.diagnosisref4 = diagnosisref(4),
            !.units = MoneyValue(item.quantity),
            !.departmentid =
                OrNone(labelled_note(item.note, "Department ID:", <<>>)),
            !.notes = OrNone(JoinNotes(fhir.note)),
            !.unitamount = MoneyValue(item.unitPrice),
            !.appointmentid =
                OrNone(IF item.encounter # <<>>
                       THEN extract_reference_id(item.encounter[1]) ELSE <<>>),
            !.linenote = OrNone(line_note),
            !.patientinsuranceid =
                OrNone(IF fhir.insurance # <<>>
                       THEN extract_reference_id(fhir.insurance[1].coverage)
                       ELSE <<>>),
            !.feescheduleid =
                OrNone(labelled_note(item.note, "Fee Schedule ID:", <<>>)),
            !.providerid = OrNone(extract_reference_id(fhir.provider)),
            !.supervisingproviderid =
                OrNone(supervising_provider(fhir.careTeam))]

\* to_synthea.claims_transactions.convert keeping the first item only
charges_to_synthea_first(fhir) ==
    LET items == SelectSeq(fhir.item, LAMBDA item : item.sequence # None)
    IN IF items = <<>> THEN <<>> ELSE <<charge_row(fhir, items[1])>>

\* to_synthea.claims_transactions.convert: one CHARGE row per item that has
\* a sequence, in item order
charges_to_synthea(fhir) ==
    LET items == SelectSeq(fhir.item, LAMBDA item : item.sequence # None)
    IN [k \in DOMAIN items |-> charge_row(fhir, items[k])]

\* flat claim transactions handed to convert_response
FlatTransactions ==
    [id : {<<"t1">>},
     claimid : {None, <<"c1">>},
     chargeid : {None, <<"1">>, <<"2">>},
     patientid : {<<"p1">>},
     patientinsuranceid : {None},
     type : TransactionTypes \cup {None},
     amount : {None},
     method : {None, <<"CASH">>},
     todate : {<<"2020-01-15">>},
     transferoutid : {None, <<"x9">>},
     transfertype : {None, <<"1">>},
     payments : {None, <<"10">>},
     adjustments : {None, <<"25">>},
     transfers : {None, <<"40">>},
     outstanding : {None, <<"0">>}]

\* line items of a nested claim
ClaimItems ==
    [sequence : {<<"1">>, <<"2">>},
     net : {NoneObj, [value |-> <<"10">>, currency |-> <<"USD">>]},
     productOrService :
         {NoneObj, Concept(<<Coding(None, <<"99213">>, <<"Office visit">>)>>, None)},
     modifier : {<<>>},
     diagnosisSequence : {<<>>, <<(<<"1">>)>>},
     quantity : {NoneObj},
     unitPrice : {NoneObj},
     encounter : {<<>>},
     note : {<<>>, <<[text |-> <<"Department ID:", SP, "d7">>]>>}]

\* nested claims handed to to_synthea.claims_transactions.convert
NestedChargeClaims ==
    [id : {None, <<"c1">>},
     patient : {[reference |-> <<"Patient", SLASH, "p1">>]},
     facility : {NoneObj},
     provider : {NoneObj, [reference |-> <<"Practitioner", SLASH, "d1">>]},
     billablePeriod : {NoneObj},
     insurance : {<<>>},
     careTeam : {<<>>},
     note : {<<>>},
     item : SeqsOf(ClaimItems, 0, MaxItems)]

InitTransaction ==
    /\ \/ pc = "flat" /\ input \in FlatTransactions
       \/ pc = "claim" /\ input \in NestedChargeClaims
    /\ doc = NoneObj
    /\ output = <<>>
    /\ warnings = <<>>

\* to_fhir.claims_transactions.convert_response(transaction)
ResponseToFhir ==
    /\ pc = "flat"
    /\ doc' = claim_response_to_fhir(input)
    /\ pc' = "nested"
    /\ UNCHANGED <<input, output, warnings>>

\* to_synthea.claims_transactions.convert_response(claim_response)
ResponseToSynthea ==
    /\ pc = "nested"
    /\ output' = claim_response_to_synthea(doc)
    /\ pc' = "back"
    /\ UNCHANGED <<input, doc, warnings>>

\* to_synthea.claims_transactions.convert(claim)
ChargesToSynthea ==
    /\ pc = "claim"
    /\ output' = charges_to_synthea(input)
    /\ pc' = "charged"
    /\ UNCHANGED <<input, doc, warnings>>

NextTransaction == ResponseToFhir \/ ResponseToSynthea \/ ChargesToSynthea

SpecTransaction == InitTransaction /\ [][NextTransaction]_vars

\* the amount field that goes with the type of a flat transaction is filled
MatchingAmount(t) ==
    CASE t.type = PAYMENT -> t.payments # None
      [] t.type = ADJUSTMENT -> t.adjustments # None
      [] t.type \in {TRANSFERIN, TRANSFEROUT} -> t.transfers # None
      [] OTHER -> TRUE

\* C15: a flat claim transaction with a chargeid, one of the five types and
\* the amount field of that type comes back from the claim-response round
\* trip as exactly one row of the same type.
C15_TypeRecovered ==
    (pc = "back" /\ input.chargeid # None /\ input.type \in TransactionTypes
        /\ MatchingAmount(input)) =>
        (Len(output) = 1 /\ output[1].type = input.type)

\* C16: a nested claim with N line items gives N rows in item order, each a
\* CHARGE carrying its item's sequence as chargeid and the claim's id as
\* claimid; a claim with no items gives no rows.
C16_ChargePerItem ==
    (pc = "charged") =>
        /\ Len(output) = Len(input.item)
        /\ \A k \in DOMAIN output :
               /\ output[k].type = CHARGE
               /\ output[k].chargeid = input.item[k].sequence
               /\ output[k].claimid = input.id

C16_Witness ==
    /\ pc = "charged"
    /\ Len(output) = 2
    /\ output[1].chargeid = <<"2">>
    /\ output[2].chargeid = <<"1">>
    /\ output[1].claimid = <<"c1">>

(***************************************************************************)
(* Imaging study: ImagingStudy -> list of Synthea ImagingStudy rows        *)
(***************************************************************************)
\* longest series list of a nested imaging study
MaxSeries == 2
\* longest instance list of a series
MaxInstances == 2

DICOM_DCM == <<"http://dicom.nema.org/resources/ontology/DCM">>

\* "dicom.nema.org" in system
IsDicom(system) == system = DICOM_DCM

\* synthea_csv_lib.parse_datetime: ISO text with an explicit UTC offset,
\* None when the text does not parse.  The module is not part of the
\* sources; this follows the specification ("returns ISO-8601 with explicit
\* UTC offset for full mode; invalid input yields the caller's default").
parse_datetime(s) ==
    IF ~Truthy(s) THEN None
    ELSE LET replaced == Replace(Strip(s), "Z", UTC_OFFSET)
         IN IF IsIsoFormat(replaced)
            THEN <<replaced[1], "T",
                   IF Len(replaced) >= 3 THEN replaced[3] ELSE "00:00:00",
                   IF Len(replaced) = 4 THEN replaced[4] ELSE UTC_OFFSET>>
            ELSE None

\* synthea_csv_lib.normalize_sop_code: the SOP code without its urn:oid:
\* prefix (the inverse of utils.normalize_sop_code_with_prefix).  The module
\* is not part of the sources.
normalize_sop_code(code) ==
    IF ~Truthy(code) THEN <<>>
    ELSE IF Head(code) = "urn:oid:" THEN Tail(code) ELSE code

\* a Synthea ImagingStudy row with every field None
EmptyImaging ==
    [id |-> None, date |-> None, patient |-> None, encounter |-> None,
     series_uid |-> None, bodysite_code |-> None, bodysite_description |-> None,
     modality_code |-> None, modality_description |-> None,
     instance_uid |-> None, sop_code |-> None, sop_description |-> None,
     procedure_code |-> None, instance_number |-> None, description |-> None]

\* to_synthea.imaging_study.convert: the fields every row repeats
imaging_common(fhir) ==
    LET study_id == IF fhir.identifier # <<>>
                    THEN GetStr(fhir.identifier[1].value) ELSE <<>>
        date_str == IF Truthy(fhir.started) THEN parse_datetime(fhir.started)
                    ELSE None
        study_date == IF Truthy(date_str)
                         /\ IsIsoFormat(Replace(date_str, "Z", UTC_OFFSET))
                      THEN Replace(date_str, "Z", UTC_OFFSET) ELSE None
        procedure_code == IF fhir.procedureCode # <<>>
                          THEN extract_coding_code(fhir.procedureCode[1], <<SNOMED>>)
                          ELSE <<>>
    IN [EmptyImaging EXCEPT
            !.id = OrNone(study_id),
            !.date = study_date,
            !.patient = OrNone(extract_reference_id(fhir.subject)),
            !.encounter = OrNone(extract_reference_id(fhir.encounter)),
            !.procedure_code = OrNone(procedure_code)]

\* the modality coding the converter reads: the first DICOM coding that has
\* a code, else the first coding
modality_coding(modality) ==
    LET codings == modality.coding
        dicom == {i \in DOMAIN codings : IsDicom(GetStr(codings[i].system))}
        first == CHOOSE i \in dicom : \A j \in dicom : i <= j
    IN IF dicom # {} /\ Truthy(codings[first].code)
       THEN codings[first] ELSE codings[1]

\* the series-level fields added to the common fields
imaging_series_fields(common, series) ==
    LET has_modality == series.modality # NoneObj /\ series.modality.coding # <<>>
        coding == modality_coding(series.modality)
    IN [common EXCEPT
            !.series_uid = OrNone(GetStr(series.uid)),
            !.bodysite_code =
                OrNone(IF series.bodySite # NoneObj
                       THEN extract_coding_code(series.bodySite, <<SNOMED>>)
                       ELSE <<>>),
            !.bodysite_description =
                OrNone(IF series.bodySite # NoneObj
                       THEN extract_display_or_text(series.bodySite) ELSE <<>>),
            !.modality_code =
                OrNone(IF has_modality THEN GetStr(coding.code) ELSE <<>>),
            !.modality_description =
                OrNone(IF has_modality THEN GetStr(coding.display) ELSE <<>>)]

\* the row of one instance of a series
imaging_instance_row(series_row, instance) ==
    LET sop_class == instance.sopClass
        codings == IF sop_class = NoneObj THEN <<>> ELSE sop_class.coding
    IN [series_row EXCEPT
            !.instance_uid = OrNone(GetStr(instance.uid)),
            !.sop_code =
                OrNone(IF sop_class = NoneObj THEN <<>>
                       ELSE IF codings # <<>>
                            THEN normalize_sop_code(GetStr(codings[1].code))
                            ELSE normalize_sop_code(GetStr(sop_class.text))),
            !.sop_description =
                OrNone(IF codings # <<>> THEN GetStr(codings[1].display)
                       ELSE <<>>),
            !.instance_number = instance.number]

\* the body of the loop over series that gives no row to a series without
\* instances
imaging_series_rows_skip(common, series) ==
    LET series_row == imaging_series_fields(common, series)
    IN [k \in DOMAIN series.instance |->
           imaging_instance_row(series_row, series.instance[k])]

\* the rows of one series: one per instance, or one with empty instance
\* fields when the series has no instances
imaging_series_rows(common, series) ==
    LET series_row == imaging_series_fields(common, series)
    IN IF series.instance = <<>>
       THEN <<series_row>>
       ELSE [k \in DOMAIN series.instance |->
                imaging_instance_row(series_row, series.instance[k])]

RECURSIVE imaging_rows(_, _)
imaging_rows(common, series_list) ==
    IF series_list = <<>> THEN <<>>
    ELSE imaging_series_rows(common, Head(series_list))
         \o imaging_rows(common, Tail(series_list))

\* to_synthea.imaging_study.convert
imaging_to_synthea(fhir) ==
    LET common == imaging_common(fhir)
        results == imaging_rows(common, fhir.series)
    IN IF results = <<>> THEN <<common>> ELSE results

ImagingInstances ==
    {[uid |-> <<"i1">>,
      sopClass |-> Concept(<<Coding(<<"urn:ietf:rfc:3986">>,
                                    <<"urn:oid:", "1.2.840">>, None)>>, None),
      number |-> None],
     [uid |-> <<"i2">>, sopClass |-> NoneObj, number |-> None]}

ImagingSeries ==
    [uid : {<<"s1">>, <<"s2">>},
     bodySite : {NoneObj},
     modality : {Concept(<<Coding(DICOM_DCM, <<"CT">>, <<"Computed Tomography">>)>>,
                         None)},
     instance : SeqsOf(ImagingInstances, 0, MaxInstances)]

\* nested imaging studies handed to to_synthea.imaging_study.convert
NestedImagingStudies ==
    [identifier : {<<>>, <<[value |-> <<"st1">>]>>},
     started : {<<"2020-01-15", "T", "10:30:00", "Z">>},
     subject : {[reference |-> <<"Patient", SLASH, "p1">>]},
     encounter : {NoneObj, [reference |-> <<"Encounter", SLASH, "e1">>]},
     procedureCode : {<<Concept(<<Coding(SNOMED, <<"77477000">>, None)>>, None)>>},
     series : SeqsOf(ImagingSeries, 0, MaxSeries)]

InitImaging ==
    /\ pc = "study"
    /\ input \in NestedImagingStudies
    /\ doc = NoneObj
    /\ output = <<>>
    /\ warnings = <<>>

\* to_synthea.imaging_study.convert(study)
ImagingToSynthea ==
    /\ pc = "study"
    /\ output' = imaging_to_synthea(input)
    /\ pc' = "rows"
    /\ UNCHANGED <<input, doc, warnings>>

NextImaging == ImagingToSynthea

SpecImaging == InitImaging /\ [][NextImaging]_vars

\* the (series index, instance index) pairs of a study in series order and
\* then instance order, instance index 0 standing for a series that has no
\* instances
RECURSIVE SeriesInstancePairs(_, _)
SeriesInstancePairs(series_list, s) ==
    IF s > Len(series_list) THEN <<>>
    ELSE (IF series_list[s].instance = <<>>
          THEN <<(<<s, 0>>)>>
          ELSE [i \in DOMAIN series_list[s].instance |-> <<s, i>>])
         \o SeriesInstancePairs(series_list, s + 1)

\* C17: to_flat on an imaging study gives one row per (series, instance)
\* pair in series order and then instance order, one row for a series
\* without instances and one fallback row when there are no series; every
\* row repeats the study-level id, date, patient, encounter and procedure
\* code.
C17_ImagingRows ==
    (pc = "rows") =>
        LET pairs == SeriesInstancePairs(input.series, 1)
            study == imaging_common(input)
        IN /\ Len(output) = (IF pairs = <<>> THEN 1 ELSE Len(pairs))
           /\ \A k \in DOMAIN output :
                  /\ output[k].id = study.id
                  /\ output[k].date = study.date
                  /\ output[k].patient = study.patient
                  /\ output[k].encounter = study.encounter
                  /\ output[k].procedure_code = study.procedure_code
           /\ pairs = <<>> =>
                  (output[1].series_uid = None /\ output[1].instance_uid = None)
           /\ \A k \in DOMAIN pairs :
                  /\ output[k].series_uid = input.series[pairs[k][1]].uid
                  /\ output[k].instance_uid =
                         (IF pairs[k][2] = 0 THEN None
                          ELSE input.series[pairs[k][1]].instance[pairs[k][2]].uid)

C17_Witness ==
    /\ pc = "rows"
    /\ Len(input.series) = 2
    /\ input.series[1].instance = <<>>
    /\ Len(input.series[2].instance) = 2
    /\ Len(output) = 3
    /\ output[1].instance_uid = None
    /\ output[3].instance_uid = <<"i2">>
    /\ output[3].id = <<"st1">>
    /\ output[3].date = <<"2020-01-15", "T", "10:30:00", "+00:00">>

(***************************************************************************)
(* Clinical status of allergies and conditions                             *)
(***************************************************************************)
\* flat conditions handed to to_fhir.condition.convert
FlatConditions ==
    [start : {<<"2020-01-01">>, <<"2019-06-30">>},
     stop : {None, <<"2021-01-01">>, <<"2019-12-31">>},
     patient : {None, <<"p1">>},
     encounter : {None, <<"e1">>},
     code : {None, <<"44054006">>},
     description : {None, <<"Diabetes">>}]

InitStatus ==
    /\ pc = "flat"
    /\ \/ input \in [kind : {"allergy"}, src : FlatAllergies]
       \/ input \in [kind : {"condition"}, src : FlatConditions]
    /\ doc = NoneObj
    /\ output = <<>>
    /\ warnings = <<>>

\* to_fhir.allergy.convert(allergy)
StatusOfAllergy ==
    /\ pc = "flat"
    /\ input.kind = "allergy"
    /\ doc' = allergy_to_fhir(input.src)
    /\ pc' = "status"
    /\ UNCHANGED <<input, output, warnings>>

\* to_fhir.condition.convert(condition)
StatusOfCondition ==
    /\ pc = "flat"
    /\ input.kind = "condition"
    /\ doc' = condition_to_fhir(input.src, None, None)
    /\ pc' = "status"
    /\ UNCHANGED <<input, output, warnings>>

NextStatus == StatusOfAllergy \/ StatusOfCondition

SpecStatus == InitStatus /\ [][NextStatus]_vars

\* C18: the nested allergy or condition has clinical status "active" exactly
\* when the flat stop field is empty and "resolved" exactly when it is
\* filled, whatever the other fields hold.
C18_ClinicalStatus ==
    (pc = "status") =>
        /\ Len(doc.clinicalStatus.coding) = 1
        /\ doc.clinicalStatus.coding[1].code =
               (IF input.src.stop = None THEN <<"active">> ELSE <<"resolved">>)

C18_Witness ==
    /\ pc = "status"
    /\ input.kind = "condition"
    /\ input.src.stop = <<"2019-12-31">>
    /\ input.src.code = None
    /\ doc.clinicalStatus.coding[1].code = <<"resolved">>

(***************************************************************************)
(* A session of conversions: calls made one after another in one process.  *)
(* doc is the history of the calls made so far, each with its result, and  *)
(* warnings counts the log records the calls have left behind.  What a     *)
(* call could read besides its arguments is this ambient state; the        *)
(* converters have no module-level variable, no cache, no clock and no     *)
(* random source, so no branch of call_result reads it.                    *)
(***************************************************************************)
\* number of calls in a session
MaxCalls == 3

SessionConditions ==
    {c \in FlatConditions :
        /\ c.start = <<"2020-01-01">>
        /\ c.stop \in {None, <<"2021-01-01">>}
        /\ c.patient = <<"p1">>
        /\ c.encounter = None
        /\ c.code # None
        /\ c.description # None}

SessionPatients == {p \in BundlePatients : p.maiden = None /\ p.gender = <<"F">>}

SessionAllergies ==
    {a \in NestedAllergies :
        /\ a.category = <<>>
        /\ a.reaction \in {<<>>, <<ReactionRash, ReactionRash, ReactionRash>>}}

SessionBundleInputs ==
    {b \in BundleInputs :
        /\ b.patient \in SessionPatients
        /\ b.patient.first = <<"Ann">>
        /\ b.encounters = NoneObj
        /\ b.allergies = NoneObj
        /\ b.conditions # NoneObj
        /\ Len(b.conditions.items) = 1}

\* the calls a session draws from: the conversion and its arguments
SessionCalls ==
    {[fn |-> "condition_to_fhir", arg |-> a] :
        a \in [src : SessionConditions,
               patient_ref : {None, RefString(PatientKind, <<"custom-123">>)}]}
    \cup {[fn |-> "condition_to_synthea", arg |-> condition_to_fhir(c, None, None)] :
            c \in SessionConditions}
    \cup {[fn |-> "patient_to_fhir", arg |-> p] : p \in SessionPatients}
    \cup {[fn |-> "patient_to_synthea", arg |-> patient_to_fhir(p)] :
            p \in SessionPatients}
    \cup {[fn |-> "allergy_to_synthea", arg |-> a] : a \in SessionAllergies}
    \cup {[fn |-> "patient_bundle", arg |-> b] : b \in SessionBundleInputs}
    \cup {[fn |-> "extract_tables",
           arg |-> patient_bundle(b.patient, b.encounters, b.conditions,
                                  b.allergies)] : b \in SessionBundleInputs}

\* what the process holds when a call starts
Ambient == [calls |-> Len(doc), log |-> warnings]

\* a conversion that stamps the condition it builds with whether an earlier
\* call was made in the process
call_result_stateful(call, ambient) ==
    CASE call.fn = "condition_to_fhir" ->
           LET r == condition_to_fhir(call.arg.src, call.arg.patient_ref, None)
           IN [value |-> [r EXCEPT !.id = IF ambient.calls > 0
                                          THEN @ \o <<"-", "again">> ELSE @],
               warnings |-> 0]
      [] call.fn = "condition_to_synthea" ->
           [value |-> condition_to_synthea(call.arg),
            warnings |-> condition_to_synthea_warnings(call.arg)]
      [] call.fn = "patient_to_fhir" ->
           [value |-> patient_to_fhir(call.arg), warnings |-> 0]
      [] call.fn = "patient_to_synthea" ->
           [value |-> patient_to_synthea(call.arg),
            warnings |-> patient_to_synthea_warnings(call.arg)]
      [] call.fn = "allergy_to_synthea" ->
           [value |-> allergy_to_synthea(call.arg),
            warnings |-> allergy_to_synthea_warnings(call.arg)]
      [] call.fn = "patient_bundle" ->
           [value |-> patient_bundle(call.arg.patient, call.arg.encounters,
                                     call.arg.conditions, call.arg.allergies),
            warnings |-> 0]
      [] call.fn = "extract_tables" ->
           [value |-> extract_tables(call.arg),
            warnings |-> extract_warnings(call.arg.entry)]

\* the value a call returns and the number of log records it writes
call_result(call, ambient) ==
    CASE call.fn = "condition_to_fhir" ->
           [value |-> condition_to_fhir(call.arg.src, call.arg.patient_ref, None),
            warnings |-> 0]
      [] call.fn = "condition_to_synthea" ->
           [value |-> condition_to_synthea(call.arg),
            warnings |-> condition_to_synthea_warnings(call.arg)]
      [] call.fn = "patient_to_fhir" ->
           [value |-> patient_to_fhir(call.arg), warnings |-> 0]
      [] call.fn = "patient_to_synthea" ->
           [value |-> patient_to_synthea(call.arg),
            warnings |-> patient_to_synthea_warnings(call.arg)]
      [] call.fn = "allergy_to_synthea" ->
           [value |-> allergy_to_synthea(call.arg),
            warnings |-> allergy_to_synthea_warnings(call.arg)]
      [] call.fn = "patient_bundle" ->
           [value |-> patient_bundle(call.arg.patient, call.arg.encounters,
                                     call.arg.conditions, call.arg.allergies),
            warnings |-> 0]
      [] call.fn = "extract_tables" ->
           [value |-> extract_tables(call.arg),
            warnings |-> extract_warnings(call.arg.entry)]

InitSession ==
    /\ pc = "idle"
    /\ input = NoneObj
    /\ doc = <<>>
    /\ output = NoneObj
    /\ warnings = 0

\* one call of the conversion fn, made after the calls in doc
SessionCall(fn) ==
    /\ pc = "idle"
    /\ Len(doc) < MaxCalls
    /\ \E call \in SessionCalls :
          /\ call.fn = fn
          /\ LET result == call_result(call, Ambient)
             IN /\ doc' = Append(doc, [call |-> call, result |-> result])
                /\ output' = result
                /\ warnings' = warnings + result.warnings
    /\ UNCHANGED <<pc, input>>

CallConditionToFhir == SessionCall("condition_to_fhir")

CallConditionToSynthea == SessionCall("condition_to_synthea")

CallPatientToFhir == SessionCall("patient_to_fhir")

CallPatientToSynthea == SessionCall("patient_to_synthea")

CallAllergyToSynthea == SessionCall("allergy_to_synthea")

CallPatientBundle == SessionCall("patient_bundle")

CallExtractTables == SessionCall("extract_tables")

NextSession ==
    \/ CallConditionToFhir
    \/ CallConditionToSynthea
    \/ CallPatientToFhir
    \/ CallPatientToSynthea
    \/ CallAllergyToSynthea
    \/ CallPatientBundle
    \/ CallExtractTables

SpecSession == InitSession /\ [][NextSession]_vars

Blank(s) == ~Truthy(s) \/ Strip(s) = <<>>

\* fhir_lib.period: the non-empty bounds, None when there is none
period(start, end) ==
    IF ~Truthy(start) /\ ~Truthy(end)
    THEN NoneObj
    ELSE [start |-> OrNone(start), end |-> OrNone(end)]

\* fhir_lib.coding: None when the code is empty or blank
coding(system, code, display) ==
    IF Blank(code)
    THEN NoneObj
    ELSE [system |-> OrNone(system), code |-> Strip(code),
          display |-> OrNone(display)]

\* fhir_lib.codeable_concept that gives up as soon as there is no coding
codeable_concept_textless(system, code, display, text) ==
    LET c == coding(system, code, display)
    IN IF c = NoneObj
       THEN NoneObj
       ELSE [coding |-> <<c>>, text |-> OrNone(text)]

\* fhir_lib.codeable_concept: the coding and the text, the text alone when
\* there is no coding, None when there is neither
codeable_concept(system, code, display, text) ==
    LET c == coding(system, code, display)
    IN IF c = NoneObj
       THEN IF Truthy(text) THEN [coding |-> <<>>, text |-> text] ELSE NoneObj
       ELSE [coding |-> <<c>>, text |-> OrNone(text)]

\* the texts handed to the builders: missing, empty, blank, plain, padded
BuilderTexts == {None, <<>>, <<SP>>, <<"x">>, <<SP, "x", SP>>}

BuilderCalls ==
    [fn : {"period"}, start : BuilderTexts, end : BuilderTexts]
    \cup [fn : {"ref"}, kind : Kinds, id : BuilderTexts]
    \cup [fn : {"codeable_concept"}, system : {None, SNOMED},
          code : BuilderTexts, display : {None, <<"d">>}, text : BuilderTexts]

InitBuilder ==
    /\ pc = "call"
    /\ input \in BuilderCalls
    /\ doc = NoneObj
    /\ output = NoneObj
    /\ warnings = 0

\* period(start, end)
BuildPeriod ==
    /\ pc = "call"
    /\ input.fn = "period"
    /\ output' = period(input.start, input.end)
    /\ pc' = "built"
    /\ UNCHANGED <<input, doc, warnings>>

\* ref(kind, id)
BuildRef ==
    /\ pc = "call"
    /\ input.fn = "ref"
    /\ output' = ref(input.kind, input.id)
    /\ pc' = "built"
    /\ UNCHANGED <<input, doc, warnings>>

\* codeable_concept(system, code, display, text)
BuildConcept ==
    /\ pc = "call"
    /\ input.fn = "codeable_concept"
    /\ output' = codeable_concept(input.system, input.code, input.display,
                                  input.text)
    /\ pc' = "built"
    /\ UNCHANGED <<input, doc, warnings>>

NextBuilder == BuildPeriod \/ BuildRef \/ BuildConcept

SpecBuilder == InitBuilder /\ [][NextBuilder]_vars

\* what the claim says of period and ref, and that no built structure is
\* empty
PeriodAndRefBuilt ==
    /\ (pc = "built" /\ input.fn = "period") =>
           /\ (output = NoneObj) <=> (~Truthy(input.start) /\ ~Truthy(input.end))
           /\ output # NoneObj =>
                  /\ output.start = OrNone(input.start)
                  /\ output["end"] = OrNone(input.end)
    /\ (pc = "built" /\ input.fn = "ref") =>
           /\ (output = NoneObj) <=> Blank(input.id)
           /\ output # NoneObj =>
                  output.reference = RefString(input.kind, Strip(input.id))
    /\ (pc = "built" /\ input.fn = "codeable_concept" /\ output # NoneObj) =>
           (output.coding # <<>> \/ Truthy(output.text))

\* C21 as stated: codeable_concept is None exactly when code and text are
\* both empty.
C21_Original ==
    /\ PeriodAndRefBuilt
    /\ (pc = "built" /\ input.fn = "codeable_concept") =>
           ((output = NoneObj) <=> (~Truthy(input.code) /\ ~Truthy(input.text)))

\* C21: period is None exactly when both bounds are empty and otherwise
\* holds the non-empty bounds; ref is None exactly when the id is empty or
\* blank; codeable_concept is None exactly when the code is empty or blank
\* and the text is empty; no builder returns an empty structure.
C21_BuildersOmitEmpty ==
    /\ PeriodAndRefBuilt
    /\ (pc = "built" /\ input.fn = "codeable_concept") =>
           ((output = NoneObj) <=> (Blank(input.code) /\ ~Truthy(input.text)))

C21_Witness ==
    /\ pc = "built"
    /\ input.fn = "codeable_concept"
    /\ input.code = <<SP>>
    /\ input.display = <<"d">>
    /\ ~Truthy(input.text)
    /\ output = NoneObj

(***************************************************************************)
(* Further properties of the encounter and allergy round trips             *)
(***************************************************************************)
\* C22: a flat encounter that has a reasoncode or a reasondescription comes
\* back from to_flat(to_nested(e)) with the same reasoncode and the same
\* reasondescription.
C22_ReasonRoundTrip ==
    (pc = "flat" /\ input # NoneObj
        /\ (Truthy(input.src.reasoncode) \/ Truthy(input.src.reasondescription))) =>
        /\ output.reasoncode = input.src.reasoncode
        /\ output.reasondescription = input.src.reasondescription

\* C23: a flat allergy comes back from to_flat(to_nested(a)) with the same
\* reaction1 and description1 and the same reaction2 and description2, also
\* when slot 1 is empty and slot 2 is filled.
C23_ReactionSlotsRoundTrip ==
    (pc = "flat" /\ input # NoneObj) =>
        /\ output.reaction1 = input.reaction1
        /\ output.description1 = input.description1
        /\ output.reaction2 = input.reaction2
        /\ output.description2 = input.description2

\* the act codes _map_encounter_class knows
KnownActCodes == {AMB, EMER, IMP, ACUTE}

\* the class of a nested encounter is missing, or its first coding has an
\* unrecognised act code, or a display text that is no flat class
ClassUnmappable(fhir) ==
    \/ ~HasFirstClassCoding(fhir)
    \/ /\ HasActCodeSubstring(GetStr(FirstClassCoding(fhir).system))
       /\ GetStr(FirstClassCoding(fhir).code) \notin KnownActCodes
    \/ /\ ~HasActCodeSubstring(GetStr(FirstClassCoding(fhir).system))
       /\ Lower(GetStr(FirstClassCoding(fhir).display)) \notin valid_classes

\* C28: to_flat on a nested encounter gives an encounterclass among
\* ambulatory, emergency, inpatient, wellness, urgentcare and outpatient; a
\* missing class, an unrecognised act code or a display text outside the
\* set gives ambulatory.
C28_ClassAlwaysValid ==
    pc = "flat" =>
        /\ output.encounterclass \in valid_classes
        /\ ClassUnmappable(doc) => output.encounterclass = AMBULATORY

\* a nested encounter whose class is displayed as 'virtual' in another
\* system has become an ambulatory flat encounter
C28_Witness ==
    /\ pc = "flat"
    /\ HasFirstClassCoding(doc)
    /\ FirstClassCoding(doc).system = OTHER_SYSTEM
    /\ FirstClassCoding(doc).display = <<"virtual">>
    /\ output.encounterclass = AMBULATORY

(***************************************************************************)
(* Medication <-> MedicationRequest (to_fhir/medication.py,                *)
(* to_synthea/medication.py)                                               *)
(***************************************************************************)
MEDICATION_BASE_COST ==
    <<"http://synthea.org/fhir/StructureDefinition/medication-baseCost">>

MEDICATION_PAYER_COVERAGE ==
    <<"http://synthea.org/fhir/StructureDefinition/medication-payerCoverage">>

MEDICATION_TOTAL_COST ==
    <<"http://synthea.org/fhir/StructureDefinition/medication-totalCost">>

\* {"url": url, "valueDecimal": float(value)} when the value is given
DecimalExtension(url, value) ==
    IF value # None THEN <<[url |-> url, valueDecimal |-> value]>> ELSE <<>>

\* a coded concept with an optional coding and an optional text, as the
\* medication and its reason are built
coded_or_text(system, code, description) ==
    Concept(IF Truthy(code)
            THEN <<Coding(system, code, OrNone(description))>> ELSE <<>>,
            OrNone(description))

\* to_fhir.medication.convert
medication_to_fhir(d, patient_ref, encounter_ref) ==
    LET start == to_str(d.start)
        stop == to_str(d.stop)
        patient_id == to_str(d.patient)
        encounter_id == to_str(d.encounter)
        payer_id == to_str(d.payer)
        code == to_str(d.code)
        description == to_str(d.description)
        reason_code == to_str(d.reasoncode)
        reason_description == to_str(d.reasondescription)
    IN [resourceType |-> <<"MedicationRequest">>,
        id |-> SyntheticId(patient_id, start, code),
        status |-> IF ~Truthy(stop) THEN <<"active">> ELSE <<"completed">>,
        intent |-> <<"order">>,
        authoredOn |-> IF Truthy(start) THEN format_datetime(start) ELSE None,
        occurrencePeriod |-> NoneObj,
        subject |-> EffectiveRef(patient_ref, PatientKind, patient_id),
        encounter |-> EffectiveRef(encounter_ref, EncounterKind, encounter_id),
        insurance |-> IF Truthy(payer_id)
                      THEN <<[reference |-> RefString(CoverageKind, payer_id)]>>
                      ELSE <<>>,
        medication |-> IF Truthy(code) \/ Truthy(description)
                       THEN [concept |-> coded_or_text(RXNORM, code, description)]
                       ELSE NoneObj,
        medicationCodeableConcept |-> NoneObj,
        dispenseRequest |-> IF d.dispenses # None
                            THEN [numberOfRepeatsAllowed |-> d.dispenses]
                            ELSE NoneObj,
        reason |-> IF Truthy(reason_code) \/ Truthy(reason_description)
                   THEN <<[concept |-> coded_or_text(SNOMED, reason_code,
                                                     reason_description)]>>
                   ELSE <<>>,
        reasonCode |-> <<>>,
        extension |-> DecimalExtension(MEDICATION_BASE_COST, d.base_cost)
                      \o DecimalExtension(MEDICATION_PAYER_COVERAGE,
                                          d.payer_coverage)
                      \o DecimalExtension(MEDICATION_TOTAL_COST, d.totalcost)]

\* synthea_csv_lib.extract_extension_decimal: the valueDecimal of the first
\* extension with the given url, None when there is none.  The module is
\* not part of the sources; this follows the specification (an optional
\* field is read back from where to_nested stored it).
extract_extension_decimal(fhir, url) ==
    LET hits == {i \in DOMAIN fhir.extension : fhir.extension[i].url = url}
    IN IF hits = {} THEN None
       ELSE fhir.extension[CHOOSE i \in hits : \A j \in hits : i <= j].valueDecimal

\* to_synthea.medication.convert: Stop, read from occurrencePeriod.end
occurrence_end(fhir) ==
    IF fhir.occurrencePeriod # NoneObj /\ Truthy(fhir.occurrencePeriod["end"])
    THEN parse_datetime_to_date(fhir.occurrencePeriod["end"])
    ELSE None

\* to_synthea.medication.convert
medication_to_synthea(fhir) ==
    LET start ==
            IF Truthy(fhir.authoredOn)
            THEN parse_datetime_to_date(fhir.authoredOn)
            ELSE IF fhir.occurrencePeriod # NoneObj
                    /\ Truthy(fhir.occurrencePeriod.start)
                 THEN parse_datetime_to_date(fhir.occurrencePeriod.start)
                 ELSE None
        coverage ==
            IF fhir.insurance # <<>> /\ "coverage" \in DOMAIN fhir.insurance[1]
            THEN fhir.insurance[1].coverage ELSE NoneObj
        medication_code ==
            IF fhir.medication # NoneObj
            THEN fhir.medication.concept
            ELSE fhir.medicationCodeableConcept
        reason_concept ==
            IF fhir.reason # <<>>
            THEN fhir.reason[1].concept
            ELSE IF fhir.reasonCode # <<>> THEN fhir.reasonCode[1] ELSE NoneObj
    IN [start |-> start,
        stop |-> occurrence_end(fhir),
        patient |-> OrNone(extract_reference_id(fhir.subject)),
        payer |-> OrNone(extract_reference_id(coverage)),
        encounter |-> OrNone(extract_reference_id(fhir.encounter)),
        code |-> OrDefault(extract_coding_code(medication_code, <<RXNORM>>),
                           <<"unknown">>),
        description |-> OrDefault(extract_display_or_text(medication_code),
                                  <<"Unknown medication">>),
        base_cost |-> extract_extension_decimal(fhir, MEDICATION_BASE_COST),
        payer_coverage |->
            extract_extension_decimal(fhir, MEDICATION_PAYER_COVERAGE),
        dispenses |-> IF fhir.dispenseRequest # NoneObj
                      THEN fhir.dispenseRequest.numberOfRepeatsAllowed ELSE None,
        totalcost |-> extract_extension_decimal(fhir, MEDICATION_TOTAL_COST),
        reasoncode |-> OrNone(extract_coding_code(reason_concept, <<SNOMED>>)),
        reasondescription |-> OrNone(extract_display_or_text(reason_concept))]

FlatMedications ==
    [start : {<<"2020-01-15">>},
     stop : {None, <<"2020-02-15">>},
     patient : {<<"p1">>},
     payer : {None, <<"y1">>},
     encounter : {None, <<"e1">>},
     code : {<<"834061">>},
     description : {None, <<"Penicillin">>},
     base_cost : {None, <<"10">>},
     payer_coverage : {None},
     dispenses : {None, <<"2">>},
     totalcost : {None, <<"25">>},
     reasoncode : {None, <<"43878008">>},
     reasondescription : {None, <<"Strep throat">>}]

\* nested medication requests that carry an occurrence period
NestedMedications ==
    {[medication_to_fhir(m, None, None) EXCEPT !.occurrencePeriod = p] :
        m \in {f \in FlatMedications : f.payer = None /\ f.dispenses = None
                                        /\ f.totalcost = None},
        p \in {[start |-> <<"2020-01-15">>, end |-> None],
               [start |-> <<"2020-01-15">>,
                end |-> <<"2020-02-15", "T", "00:00:00", "+00:00">>]}}

InitMedication ==
    /\ output = NoneObj
    /\ warnings = 0
    /\ \/ /\ pc = "start"
          /\ input \in FlatMedications
          /\ doc = NoneObj
       \/ /\ pc = "nested"
          /\ input = NoneObj
          /\ doc \in NestedMedications

\* to_fhir.medication.convert(medication)
MedicationToFhir ==
    /\ pc = "start"
    /\ doc' = medication_to_fhir(input, None, None)
    /\ pc' = "nested"
    /\ UNCHANGED <<input, output, warnings>>

\* to_synthea.medication.convert(medication_request)
MedicationToSynthea ==
    /\ pc = "nested"
    /\ output' = medication_to_synthea(doc)
    /\ pc' = "flat"
    /\ UNCHANGED <<input, doc, warnings>>

NextMedication == MedicationToFhir \/ MedicationToSynthea

SpecMedication == InitMedication /\ [][NextMedication]_vars

\* C24: a flat medication comes back from to_flat(to_nested(m)) with the
\* stop date it had, and with no stop when it had none.
C24_StopRoundTrip ==
    (pc = "flat" /\ input # NoneObj) => output.stop = input.stop

(***************************************************************************)
(* Synthesised identifiers (to_fhir/careplan.py, to_fhir/observation.py    *)
(* and the converters above)                                               *)
(***************************************************************************)
LOINC == <<"http://loinc.org">>

OBSERVATION_CATEGORY ==
    <<"http://terminology.hl7.org/CodeSystem/observation-category">>

CategoryTypes ==
    {<<"vital-signs">>, <<"laboratory">>, <<"survey">>, <<"exam">>,
     <<"therapy">>, <<"activity">>, <<"social-history">>, <<"imaging">>,
     <<"procedure">>}

\* to_fhir.observation._normalize_category
normalize_category(category_type) ==
    IF ~Truthy(category_type) THEN NoneObj
    ELSE LET key == Strip(Lower(category_type))
         IN IF key \in CategoryTypes
            THEN [system |-> OBSERVATION_CATEGORY, code |-> key]
            ELSE NoneObj

\* to_fhir.careplan.convert
careplan_to_fhir(d, patient_ref, encounter_ref) ==
    LET careplan_id == to_str(d.id)
        start == to_str(d.start)
        stop == to_str(d.stop)
        patient_id == to_str(d.patient)
        encounter_id == to_str(d.encounter)
        code == to_str(d.code)
        description == to_str(d.description)
        reason_code == to_str(d.reasoncode)
        reason_description == to_str(d.reasondescription)
        resource_id == IF Truthy(careplan_id) THEN careplan_id
                       ELSE SyntheticId(patient_id, start, code)
    IN [resourceType |-> <<"CarePlan">>,
        status |-> IF ~Truthy(stop) THEN <<"active">> ELSE <<"completed">>,
        intent |-> <<"plan">>,
        id |-> OrNone(resource_id),
        period |-> period(IF Truthy(start) THEN OrNone(format_datetime(start))
                          ELSE None,
                          IF Truthy(stop) THEN OrNone(format_datetime(stop))
                          ELSE None),
        subject |-> EffectiveRef(patient_ref, PatientKind, patient_id),
        encounter |-> EffectiveRef(encounter_ref, EncounterKind, encounter_id),
        category |-> IF Truthy(code)
                     THEN <<Concept(<<Coding(SNOMED, code, None)>>, None)>>
                     ELSE <<>>,
        description |-> OrNone(description),
        title |-> OrNone(description),
        addresses |-> IF Truthy(reason_code) \/ Truthy(reason_description)
                      THEN <<[concept |-> coded_or_text(SNOMED, reason_code,
                                                        reason_description)]>>
                      ELSE <<>>]

\* to_fhir.observation.convert
observation_to_fhir(d, patient_ref, encounter_ref) ==
    LET date == to_str(d.date)
        patient_id == to_str(d.patient)
        encounter_id == to_str(d.encounter)
        code == to_str(d.code)
        description == to_str(d.description)
        units == to_str(d.units)
        category_coding == normalize_category(to_str(d.type))
        numeric == d.value # None /\ IsDecimal(d.value)
        boolean == d.value # None /\ ~numeric
                   /\ Lower(d.value) \in {<<"true">>, <<"false">>}
    IN [resourceType |-> <<"Observation">>,
        id |-> SyntheticId(patient_id, date, code),
        status |-> <<"final">>,
        effectiveDateTime |-> IF Truthy(date) THEN OrNone(format_datetime(date))
                              ELSE None,
        subject |-> EffectiveRef(patient_ref, PatientKind, patient_id),
        encounter |-> EffectiveRef(encounter_ref, EncounterKind, encounter_id),
        code |-> IF Truthy(code) \/ Truthy(description)
                 THEN coded_or_text(LOINC, code, description) ELSE NoneObj,
        category |-> IF category_coding # NoneObj
                     THEN <<[coding |-> <<category_coding>>]>> ELSE <<>>,
        valueQuantity |->
            IF numeric
            THEN [value |-> d.value, unit |-> OrNone(units),
                  code |-> OrNone(units),
                  system |-> IF Truthy(units)
                             THEN <<"http://unitsofmeasure.org">> ELSE None]
            ELSE NoneObj,
        valueBoolean |-> IF boolean THEN Lower(d.value) ELSE None,
        valueString |-> IF d.value # None /\ ~numeric /\ ~boolean
                        THEN d.value ELSE None]

IdentifierKinds ==
    {"allergy", "condition", "medication", "observation", "encounter",
     "careplan"}

\* the kinds whose flat record has an id of its own
KindsWithId == {"encounter", "careplan"}

IdentifierPatients == {<<"p1">>, <<"p2">>}

\* str() of a date, of a datetime and of a datetime with a zone
IdentifierStarts ==
    {<<"2020-01-15">>, <<"2020-01-15", SP, "10:30:00">>,
     <<"2020-01-15", SP, "10:30:00", "+00:00">>}

IdentifierCodes == {<<"A1">>, <<"A", SP, "1">>, <<"urn", ":", "1">>}

\* the flat records the identifiers are synthesised for
IdentifierInputs ==
    {r \in [kind : IdentifierKinds, id : {None, <<"e1">>},
            patient : IdentifierPatients, start : IdentifierStarts,
            code : IdentifierCodes] :
        r.kind \notin KindsWithId => r.id = None}

\* the flat record of kind r.kind with the given id, patient, start and code
identifier_record(r) ==
    CASE r.kind = "allergy" ->
            [start |-> r.start, stop |-> None, patient |-> r.patient,
             encounter |-> None, code |-> r.code, system |-> SNOMED,
             description |-> None, type |-> None, category |-> None,
             reaction1 |-> None, description1 |-> None, severity1 |-> None,
             reaction2 |-> None, description2 |-> None, severity2 |-> None]
      [] r.kind = "condition" ->
            [start |-> r.start, stop |-> None, patient |-> r.patient,
             encounter |-> None, code |-> r.code, description |-> None]
      [] r.kind = "medication" ->
            [start |-> r.start, stop |-> None, patient |-> r.patient,
             payer |-> None, encounter |-> None, code |-> r.code,
             description |-> None, base_cost |-> None, payer_coverage |-> None,
             dispenses |-> None, totalcost |-> None, reasoncode |-> None,
             reasondescription |-> None]
      [] r.kind = "observation" ->
            [date |-> r.start, patient |-> r.patient, encounter |-> None,
             category |-> None, code |-> r.code, description |-> None,
             value |-> <<"10">>, units |-> <<"kg">>,
             type |-> <<"vital-signs">>]
      [] r.kind = "encounter" ->
            [id |-> r.id, start |-> r.start, stop |-> None,
             patient |-> r.patient, organization |-> None, provider |-> None,
             payer |-> None, encounterclass |-> <<"ambulatory">>,
             code |-> r.code, description |-> None, reasoncode |-> None,
             reasondescription |-> None]
      [] OTHER ->
            [id |-> r.id, start |-> r.start, stop |-> None,
             patient |-> r.patient, encounter |-> None, code |-> r.code,
             description |-> None, reasoncode |-> None,
             reasondescription |-> None]

\* to_nested on the flat record of r
identified_to_fhir(r) ==
    LET d == identifier_record(r)
    IN CASE r.kind = "allergy" -> allergy_to_fhir(d)
         [] r.kind = "condition" -> condition_to_fhir(d, None, None)
         [] r.kind = "medication" -> medication_to_fhir(d, None, None)
         [] r.kind = "observation" -> observation_to_fhir(d, None, None)
         [] r.kind = "encounter" -> encounter_to_fhir(d, None, None, None)
         [] OTHER -> careplan_to_fhir(d, None, None)

InitIdentifier ==
    /\ pc = "start"
    /\ input \in IdentifierInputs
    /\ doc = NoneObj
    /\ output = NoneObj
    /\ warnings = 0

\* the first conversion of the flat record
IdentifierConvert ==
    /\ pc = "start"
    /\ doc' = identified_to_fhir(input)
    /\ pc' = "nested"
    /\ UNCHANGED <<input, output, warnings>>

\* a later conversion of the same flat record
IdentifierConvertAgain ==
    /\ pc = "nested"
    /\ output' = identified_to_fhir(input)
    /\ pc' = "again"
    /\ UNCHANGED <<input, doc, warnings>>

NextIdentifier == IdentifierConvert \/ IdentifierConvertAgain

SpecIdentifier == InitIdentifier /\ [][NextIdentifier]_vars

\* the symbols of a text that hold a space or a colon
SpaceOrColon == {SP, ":", "00:00:00", "10:30:00", "+00:00", "-05:00"}

\* the flat record of the state keeps its own id
KeepsFlatId == input.kind \in KindsWithId /\ Truthy(input.id)

\* C25: an identifier that to_nested synthesises is the patient id, the
\* start and the code joined by hyphens with every space and every colon
\* turned into a hyphen, so it holds no space and no colon and depends on
\* patient, start and code only; every conversion of the record gives the
\* same identifier; an encounter or care plan with a flat id keeps that id.
C25_SyntheticIdentifier ==
    /\ (pc \in {"nested", "again"} /\ ~KeepsFlatId) =>
          /\ doc.id = [i \in 1..Len(input.patient) |-> HyphenSym(input.patient[i])]
                      \o <<"-">>
                      \o [i \in 1..Len(input.start) |-> HyphenSym(input.start[i])]
                      \o <<"-">>
                      \o [i \in 1..Len(input.code) |-> HyphenSym(input.code[i])]
          /\ \A i \in DOMAIN doc.id : doc.id[i] \notin SpaceOrColon
    /\ (pc \in {"nested", "again"} /\ KeepsFlatId) => doc.id = input.id
    /\ pc = "again" => output.id = doc.id

\* a care plan without a flat id, started at a time of day, with a colon in
\* its code, has been converted twice
C25_Witness ==
    /\ pc = "again"
    /\ input.kind = "careplan"
    /\ input.id = None
    /\ input.start = <<"2020-01-15", SP, "10:30:00">>
    /\ input.code = <<"urn", ":", "1">>
    /\ doc.id = <<"p1", "-", "2020-01-15", "-", "10-30-00", "-", "urn", "-", "1">>

(***************************************************************************)
(* chidian_ext.extract_code                                                *)
(***************************************************************************)
MaxCodings == 2

\* what grab(source, path) found: nothing, a value that is no mapping, or a
\* mapping with its "coding" list (empty when the key is absent)
Missing == [kind |-> "missing"]

NotAMapping == [kind |-> "text", value |-> <<"x">>]

Mapping(codings) == [kind |-> "dict", coding |-> codings]

\* coding.get("code", "")
CodeOf(c) == IF c.code = None THEN <<>> ELSE c.code

RECURSIVE first_code_of_system(_, _)
\* for coding in codings: if coding.get("system") == sys and its code is
\* non-empty, that code; <<>> when no coding qualifies
first_code_of_system(codings, sys) ==
    IF codings = <<>> THEN <<>>
    ELSE IF Head(codings).system = sys /\ CodeOf(Head(codings)) # <<>>
         THEN CodeOf(Head(codings))
         ELSE first_code_of_system(Tail(codings), sys)

RECURSIVE first_coding_preferred(_, _)
\* the loops the other way round: for coding in codings, for sys in
\* preferred
first_coding_preferred(codings, preferred) ==
    IF codings = <<>> THEN <<>>
    ELSE IF CodeOf(Head(codings)) # <<>>
            /\ \E p \in DOMAIN preferred : preferred[p] = Head(codings).system
         THEN CodeOf(Head(codings))
         ELSE first_coding_preferred(Tail(codings), preferred)

RECURSIVE first_preferred_code(_, _)
\* for sys in preferred: the first code found for sys; <<>> when none
first_preferred_code(codings, preferred) ==
    IF preferred = <<>> THEN <<>>
    ELSE LET code == first_code_of_system(codings, Head(preferred))
         IN IF code # <<>> THEN code
            ELSE first_preferred_code(codings, Tail(preferred))

\* preferred = systems or ([system] if system else [])
preferred_systems(system, systems) ==
    IF systems # None /\ systems # <<>> THEN systems
    ELSE IF Truthy(system) THEN <<system>> ELSE <<>>

\* chidian_ext.extract_code, on the value grab() found at the path
extract_code(concept, system, systems, default) ==
    IF concept.kind # "dict" THEN default
    ELSE IF concept.coding = <<>> THEN default
    ELSE LET code == first_preferred_code(concept.coding,
                                          preferred_systems(system, systems))
         IN IF code # <<>> THEN code
            ELSE OrDefault(CodeOf(concept.coding[1]), default)

ExtractSystems == {<<"s1">>, <<"s2">>, <<"s3">>}

ExtractCodings ==
    [system : {None} \cup ExtractSystems, code : {None, <<>>, <<"a">>, <<"b">>}]

ExtractConcepts ==
    {Missing, NotAMapping}
    \cup {Mapping(cs) : cs \in UNION {[1..n -> ExtractCodings] : n \in 0..MaxCodings}}

ExtractCalls ==
    [concept : ExtractConcepts,
     system : {None, <<"s1">>},
     systems : {None, <<>>, << <<"s1">>, <<"s2">> >>, << <<"s2">>, <<"s1">> >>},
     default : {<<>>, <<"dflt">>}]

InitExtract ==
    /\ pc = "call"
    /\ input \in ExtractCalls
    /\ doc = NoneObj
    /\ output = None
    /\ warnings = 0

\* extract_code(source, path, system=..., systems=..., default=...)
ExtractCode ==
    /\ pc = "call"
    /\ output' = extract_code(input.concept, input.system, input.systems,
                              input.default)
    /\ pc' = "done"
    /\ UNCHANGED <<input, doc, warnings>>

NextExtract == ExtractCode

SpecExtract == InitExtract /\ [][NextExtract]_vars

\* the (preferred position, coding position) pairs where the coding is of
\* that preferred system and has a non-empty code
PreferredHits ==
    LET preferred == preferred_systems(input.system, input.systems)
    IN {h \in (DOMAIN preferred) \X (DOMAIN input.concept.coding) :
           /\ input.concept.coding[h[2]].system = preferred[h[1]]
           /\ CodeOf(input.concept.coding[h[2]]) # <<>>}

\* the hit of the earliest preferred system, and of its first coding
EarliestHit ==
    CHOOSE h \in PreferredHits :
        \A g \in PreferredHits : h[1] < g[1] \/ (h[1] = g[1] /\ h[2] <= g[2])

HasCodings == input.concept.kind = "dict" /\ input.concept.coding # <<>>

\* C26: extract_code returns the code of the first coding of the earliest
\* preferred system that has a coding with a non-empty code; without such a
\* coding it returns the first coding's code (the default when that code is
\* empty); a concept that is missing, is no mapping or has no codings
\* gives the default.
C26_ExtractCode ==
    pc = "done" =>
        /\ ~HasCodings => output = input.default
        /\ (HasCodings /\ PreferredHits # {}) =>
              output = CodeOf(input.concept.coding[EarliestHit[2]])
        /\ (HasCodings /\ PreferredHits = {}) =>
              output = OrDefault(CodeOf(input.concept.coding[1]), input.default)

\* the first coding is of the second preferred system, a later coding of
\* the first preferred system, and the later coding's code is returned
C26_Witness ==
    /\ pc = "done"
    /\ input.systems = << <<"s1">>, <<"s2">> >>
    /\ input.concept = Mapping(<<[system |-> <<"s2">>, code |-> <<"b">>],
                                 [system |-> <<"s1">>, code |-> <<"a">>]>>)
    /\ output = <<"a">>

(***************************************************************************)
(* Full-mode datetime normalisation (fhir_lib.format_datetime,             *)
(* chidian_ext.to_datetime, synthea_lib.to_synthea_datetime)               *)
(***************************************************************************)
\* datetime.fromisoformat(s).isoformat(): the date, "T", the time (midnight
\* for a date alone) and the zone only when the text had one
naive_isoformat(s) ==
    <<s[1], "T", IF Len(s) >= 3 THEN s[3] ELSE "00:00:00">>
    \o (IF Len(s) = 4 THEN <<s[4]>> ELSE <<>>)

\* chidian_ext.to_datetime, on a text
to_datetime(dt_value, default) ==
    IF ~Truthy(dt_value) THEN default
    ELSE LET dt_str == Replace(dt_value, "Z", UTC_OFFSET)
         IN IF IsIsoFormat(dt_str) THEN naive_isoformat(dt_str) ELSE default

\* synthea_lib.to_synthea_datetime, on a text
to_synthea_datetime(dt_value) ==
    IF ~Truthy(dt_value) THEN None
    ELSE LET dt_str == Replace(dt_value, "Z", UTC_OFFSET)
         IN IF IsIsoFormat(dt_str) THEN naive_isoformat(dt_str) ELSE None

DatetimeFunctions == {"format_datetime", "to_datetime", "to_synthea_datetime"}

\* valid texts: a date, or a date, a separator and a time, with no zone, a
\* trailing Z or an offset
ValidDatetimeTexts ==
    {<<d>> : d \in {"1990-01-01", "2020-01-15"}}
    \cup {<<d, sep, "10:30:00">> : d \in {"1990-01-01", "2020-01-15"},
                                   sep \in {"T", SP}}
    \cup {<<d, "T", "10:30:00", z>> : d \in {"1990-01-01", "2020-01-15"},
                                      z \in {"Z", "+00:00", "-05:00"}}

InvalidDatetimeTexts ==
    {None, <<>>, <<SP>>, <<"garbage">>, <<"2020-13-45">>,
     <<"2020-01-15", "T">>, <<"2020-01-15", "T", "25:61:00">>,
     <<"2020-01-15", "Z">>}

DatetimeCalls ==
    [fn : DatetimeFunctions,
     value : ValidDatetimeTexts \cup InvalidDatetimeTexts,
     default : {<<>>, <<"n/a">>}]

\* what the function gives for an input it cannot parse
datetime_default(call) ==
    IF call.fn = "to_datetime" THEN call.default ELSE None

InitDatetime ==
    /\ pc = "call"
    /\ input \in DatetimeCalls
    /\ doc = NoneObj
    /\ output = None
    /\ warnings = 0

\* one call of format_datetime, to_datetime or to_synthea_datetime
NormaliseDatetime ==
    /\ pc = "call"
    /\ output' = CASE input.fn = "format_datetime" -> format_datetime(input.value)
                   [] input.fn = "to_datetime" ->
                        to_datetime(input.value, input.default)
                   [] OTHER -> to_synthea_datetime(input.value)
    /\ pc' = "done"
    /\ UNCHANGED <<input, doc, warnings>>

NextDatetime == NormaliseDatetime

SpecDatetime == InitDatetime /\ [][NextDatetime]_vars

\* C27: full-mode normalisation of a valid date or datetime text gives an
\* ISO-8601 text with an explicit offset, +00:00 when the input had no
\* zone; an invalid input gives the default.
C27_ExplicitUtcOffset ==
    pc = "done" =>
        /\ input.value \in ValidDatetimeTexts =>
              /\ Len(output) = 4
              /\ output[4] \in ValidOffsets
              /\ Len(input.value) < 4 => output[4] = UTC_OFFSET
        /\ input.value \in InvalidDatetimeTexts =>
              output = datetime_default(input)

(***************************************************************************)
(* Claim responses whose items carry several adjudications                 *)
(* (to_synthea/claims_transactions.py, convert_response)                   *)
(***************************************************************************)
\* longest adjudication list of an item
MaxAdjudications == 2

AdjudicationEntries ==
    {Adjudication(TRANSACTION_TYPE_SYSTEM, code, amount, None) :
        code \in {PAYMENT, <<"adjustment">>, <<"transfer">>, <<"submitted">>},
        amount \in {NoneObj} \cup {[value |-> v, currency |-> <<"USD">>] :
                                      v \in {<<"10">>, <<"25">>}}}

\* nested claim responses with one item
NestedResponses ==
    {[resourceType |-> <<"ClaimResponse">>,
      id |-> <<"t1">>,
      request |-> create_reference(ClaimKind, <<"c1">>),
      patient |-> create_reference(PatientKind, <<"p1">>),
      item |-> <<[itemSequence |-> <<"1">>, adjudication |-> adjs,
                  note |-> <<>>]>>,
      payment |-> pay] :
        adjs \in SeqsOf(AdjudicationEntries, 0, MaxAdjudications),
        pay \in {NoneObj,
                 [amount |-> [value |-> <<"40">>, currency |-> <<"USD">>],
                  type |-> NoneObj, date |-> None]}}

InitAdjudication ==
    /\ pc = "response"
    /\ input = NoneObj
    /\ doc \in NestedResponses
    /\ output = <<>>
    /\ warnings = <<>>

\* to_synthea.claims_transactions.convert_response(claim_response)
ResponseRows ==
    /\ pc = "response"
    /\ output' = claim_response_to_synthea(doc)
    /\ pc' = "rows"
    /\ UNCHANGED <<input, doc, warnings>>

NextAdjudication == ResponseRows

SpecAdjudication == InitAdjudication /\ [][NextAdjudication]_vars

\* the adjudications of an item whose category carries a type code
TypedAdjudications(adjs) ==
    {i \in DOMAIN adjs :
        \E j \in DOMAIN adjs[i].category.coding :
            adjs[i].category.coding[j].code
                \in PaymentCodes \cup AdjustmentCodes \cup TransferCodes}

\* the adjudication that decided the type of the row: the last typed one
DecidingAdjudication(adjs) ==
    adjs[CHOOSE i \in TypedAdjudications(adjs) :
            \A j \in TypedAdjudications(adjs) : j <= i]

\* the amount an adjudication carries, None when it has none
AmountOf(adj) == IF adj.amount = NoneObj THEN None ELSE AdjudicationAmount(adj)

\* at most one of payments, adjustments and transfers is filled
OnePartAtMost(row) ==
    Cardinality({f \in {"payments", "adjustments", "transfers"} :
                    row[f] # None}) <= 1

\* C29: in every row of an item of a nested claim response the value in
\* amount, adjustments or transfers is the amount of the adjudication whose
\* category code decided the row's type, never that of another
\* adjudication, and at most one of payments, adjustments and transfers is
\* filled.
C29_AmountOfDecidingAdjudication ==
    pc = "rows" =>
        \A k \in DOMAIN doc.item :
            /\ OnePartAtMost(output[k])
            /\ TypedAdjudications(doc.item[k].adjudication) # {} =>
                  \A f \in {"amount", "adjustments", "transfers"} :
                      output[k][f] \in
                          {None,
                           AmountOf(DecidingAdjudication(doc.item[k].adjudication))}

(***************************************************************************)
(* The claim round trip applied twice (to_fhir/claims.py,                  *)
(* to_synthea/claims.py)                                                   *)
(***************************************************************************)
\* diagnosis columns with a gap in front, in the middle, none and no gap
TwiceDiagnoses ==
    {[i \in 1..DiagnosisSlots |-> IF i \in S THEN <<"D", "-", "x">> ELSE None] :
        S \in {{}, {1, 2}, {2, 5}, {8}}}

TwiceClaims ==
    {[id |-> <<"c1">>,
      patientid |-> pat,
      providerid |-> <<"d1">>,
      primarypatientinsuranceid |-> ins[1],
      secondarypatientinsuranceid |-> ins[2],
      departmentid |-> <<"7">>,
      patientdepartmentid |-> None,
      diagnosis |-> dg,
      appointmentid |-> <<"e1">>,
      currentillnessdate |-> dates[1],
      servicedate |-> dates[2],
      supervisingproviderid |-> sup,
      lastbilleddate1 |-> dates[3],
      lastbilleddate2 |-> None,
      lastbilleddatep |-> None,
      status1 |-> st,
      status2 |-> None,
      statusp |-> st,
      outstanding1 |-> st,
      outstanding2 |-> None,
      outstandingp |-> None,
      healthcareclaimtypeid1 |-> types[1],
      healthcareclaimtypeid2 |-> types[2]] :
        pat \in {<<"p1">>, <<SP, "p1">>},
        ins \in {None, <<"i1">>} \X {None, <<"i2">>},
        dg \in TwiceDiagnoses,
        dates \in {<<None, <<"2020-01-15">>, None>>,
                   <<(<<"1990-01-01">>), <<"2020-01-15", SP, "10:30:00">>,
                     <<"2020-02-15", SP, "10:30:00", "-05:00">>>>,
                   <<(<<"garbage">>), None, <<"2020-02-15">>>>},
        sup \in {None, <<"d2">>},
        st \in {None, <<"CLOSED">>},
        types \in {None, <<"1">>, <<"2">>, <<"3">>} \X {None, <<"2">>}}

InitTwice ==
    /\ pc = "start"
    /\ input \in TwiceClaims
    /\ doc = NoneObj
    /\ output = <<>>
    /\ warnings = 0

\* to_fhir.claims.convert on the flat claim
TwiceToFhir ==
    /\ pc = "start"
    /\ doc' = claim_to_fhir(input)
    /\ pc' = "nested"
    /\ UNCHANGED <<input, output, warnings>>

\* to_synthea.claims.convert on the nested claim: the result of one round
\* trip
TwiceToSynthea ==
    /\ pc = "nested"
    /\ output' = <<claim_to_synthea(doc)>>
    /\ pc' = "once"
    /\ UNCHANGED <<input, doc, warnings>>

\* to_fhir.claims.convert on the result of the first round trip
TwiceAgainToFhir ==
    /\ pc = "once"
    /\ doc' = claim_to_fhir(output[1])
    /\ pc' = "nested again"
    /\ UNCHANGED <<input, output, warnings>>

\* to_synthea.claims.convert once more: the result of two round trips
TwiceAgainToSynthea ==
    /\ pc = "nested again"
    /\ output' = Append(output, claim_to_synthea(doc))
    /\ pc' = "twice"
    /\ UNCHANGED <<input, doc, warnings>>

NextTwice ==
    TwiceToFhir \/ TwiceToSynthea \/ TwiceAgainToFhir \/ TwiceAgainToSynthea

SpecTwice == InitTwice /\ [][NextTwice]_vars

\* C30: the round trip to_flat(to_nested(c)) on claims is idempotent; a
\* second round trip gives the flat claim the first one gave.
C30_RoundTripIdempotent ==
    pc = "twice" => output[2] = output[1]

\* a claim with a gap in its diagnosis columns, an unknown claim type, status
\* and outstanding values and a service time has gone through two round
\* trips; the first one moved, defaulted and dropped them
C30_Witness ==
    /\ pc = "twice"
    /\ input.diagnosis[2] # None /\ input.diagnosis[1] = None
    /\ input.healthcareclaimtypeid1 = <<"3">>
    /\ input.status1 = <<"CLOSED">>
    /\ input.servicedate = <<"2020-01-15", SP, "10:30:00">>
    /\ output[1].diagnosis[1] # None
    /\ output[1].healthcareclaimtypeid1 = <<"1">>
    /\ output[1].status1 = None
    /\ output[1].servicedate = <<"2020-01-15">>
    /\ output[1].lastbilleddate1 = <<"2020-02-15">>

====
